---- MODULE Spec2Model ----
(***************************************************************************)
(* ve-rs: the feature parser (prepare_tokens) and the word aggregator      *)
(* (parse_into_words) of src/src/lib.rs as state machines.                 *)
(*                                                                         *)
(* Text is modelled by TLA+ strings and \o is push_str.  The model checker *)
(* reads ASCII only, so every Japanese literal of the source is written    *)
(* in romaji; the original is given in the comment next to it.  A value of *)
(* the enum POS or PartOfSpeech is the string of its variant name.         *)
(* Option<T> is a sequence of length 0 (None) or 1 (Some).                 *)
(***************************************************************************)
EXTENDS Naturals, Sequences, FiniteSets, TLC

VARIABLES
    raw_tokens,   \* prepare_tokens: the argument, a sequence of RawToken
    ridx,         \* prepare_tokens: number of raw tokens the map has taken
    prepared,     \* prepare_tokens: the PreparedTokens collected so far
    presult,      \* prepare_tokens: "idle", "running", "ok", "err", "panic"
    perror,       \* prepare_tokens: the error value, Option
    tokens,       \* parse_into_words: the argument, a sequence of PreparedToken
    idx,          \* parse_into_words: number of tokens taken from iter
    words,        \* parse_into_words: the Vec<Word> built so far
    previous,     \* parse_into_words: Option<PreparedToken>
    result,       \* parse_into_words: "idle", "running", "ok", "err"
    error,        \* parse_into_words: the error value, Option
    eaten         \* parse_into_words: the input positions taken by the
                  \* iter.next() of the eat_next block (history)

prepVars == <<raw_tokens, ridx, prepared, presult, perror>>
parseVars == <<tokens, idx, words, previous, result, error, eaten>>
vars == <<raw_tokens, ridx, prepared, presult, perror,
          tokens, idx, words, previous, result, error, eaten>>

(***************************************************************************)
(* Bounds                                                                  *)
(***************************************************************************)
MaxLen == 3        \* longest token sequence given to parse_into_words
MaxRaw == 2        \* longest raw token sequence given to prepare_tokens
MaxFields == 10    \* most comma-separated fields of a feature string

None == "None"
NoToken == <<>>
Some(t) == <<t>>

(***************************************************************************)
(* The literals of lib.rs, lines 134-140                                   *)
(***************************************************************************)
NA == "na"   \* な
NI == "ni"   \* に
TE == "te"   \* て
DE == "de"   \* で
BA == "ba"   \* ば
NN == "n"    \* ん
SA == "sa"   \* さ

(***************************************************************************)
(* struct PreparedToken and struct Word                                    *)
(***************************************************************************)
PreparedToken(literal, pos, pos2, pos3, pos4, inflection_type, inflection_form, lemma, reading, hatsuon) ==
    [literal |-> literal, pos |-> pos, pos2 |-> pos2, pos3 |-> pos3,
     pos4 |-> pos4, inflection_type |-> inflection_type,
     inflection_form |-> inflection_form, lemma |-> lemma,
     reading |-> reading, hatsuon |-> hatsuon]

Word(word, lemma, part_of_speech, toks, reading, transcription, grammar) ==
    [word |-> word, lemma |-> lemma, part_of_speech |-> part_of_speech,
     tokens |-> toks,
     extra |-> [reading |-> reading, transcription |-> transcription,
                grammar |-> grammar]]

(***************************************************************************)
(* impl From<&str> for POS.  The labels in romaji, in the order of the     *)
(* match: 名詞 固有名詞 代名詞 助動詞 数 助詞 接頭詞 動詞 記号 フィラー    *)
(* その他 感動詞 連体詞 接続詞 副詞 接続助詞 形容詞 非自立 副詞可能        *)
(* サ変接続 形容動詞語幹 ナイ形容詞語幹 助動詞語幹 副詞化 体言接続 連体化  *)
(* 特殊 接尾 接続詞的 動詞非自立的 サ変・スル 特殊・タ 特殊・ナイ          *)
(* 特殊・タイ 特殊・デス 特殊・ダ 特殊・マス 特殊・ヌ 不変化型 人名 命令ｉ *)
(* 係助詞 *                                                                *)
(***************************************************************************)
POSFrom(value) ==
    CASE value = "meishi" -> "Meishi"
      [] value = "koyuumeishi" -> "KoyuuMeishi"
      [] value = "daimeishi" -> "DaiMeishi"
      [] value = "jodoushi" -> "JoDoushi"
      [] value = "kazu" -> "Kazu"
      [] value = "joshi" -> "Joshi"
      [] value = "settoushi" -> "Settoushi"
      [] value = "doushi" -> "Doushi"
      [] value = "kigou" -> "Kigou"
      [] value = "firaa" -> "Firaa"
      [] value = "sonota" -> "Sonota"
      [] value = "kandoushi" -> "Kandoushi"
      [] value = "rentaishi" -> "Rentaishi"
      [] value = "setsuzokushi" -> "Setsuzokushi"
      [] value = "fukushi" -> "Fukushi"
      [] value = "setsuzokujoshi" -> "Setsuzokujoshi"
      [] value = "keiyoushi" -> "Keiyoushi"
      [] value = "hijiritsu" -> "Hijiritsu"
      [] value = "fukushikanou" -> "Fukushikanou"
      [] value = "sahensetsuzoku" -> "Sahensetsuzoku"
      [] value = "keiyoudoushigokan" -> "Keiyoudoushigokan"
      [] value = "naikeiyoushigokan" -> "Naikeiyoushigokan"
      [] value = "jodoushigokan" -> "Jodoushigokan"
      [] value = "fukushika" -> "Fukushika"
      [] value = "taigensetsuzoku" -> "Taigensetsuzoku"
      [] value = "rentaika" -> "Rentaika"
      [] value = "tokushu" -> "Tokushu"
      [] value = "setsubi" -> "Setsubi"
      [] value = "setsuzokushiteki" -> "Setsuzokushiteki"
      [] value = "doushihijiritsuteki" -> "Doushihijiritsuteki"
      [] value = "sahen-suru" -> "SahenSuru"
      [] value = "tokushu-ta" -> "TokushuTa"
      [] value = "tokushu-nai" -> "TokushuNai"
      [] value = "tokushu-tai" -> "TokushuTai"
      [] value = "tokushu-desu" -> "TokushuDesu"
      [] value = "tokushu-da" -> "TokushuDa"
      [] value = "tokushu-masu" -> "TokushuMasu"
      [] value = "tokushu-nu" -> "TokushuNu"
      [] value = "fuhenkagata" -> "Fuhenkagata"
      [] value = "jinmei" -> "Jinmei"
      [] value = "meirei-i" -> "MeireiI"
      [] value = "kakarijoshi" -> "Kakarijoshi"
      [] value = "*" -> "Unset"
      [] OTHER -> "Unknown"

(***************************************************************************)
(* prepare_tokens.  A feature string is a sequence of text runs; the run   *)
(* "," is the delimiter and no other run holds a comma.                    *)
(***************************************************************************)
RawToken(surface, feature) == [surface |-> surface, feature |-> feature]

RECURSIVE Split(_)
\* raw_token.feature.split(',').collect(): n commas give n + 1 fields
Split(feature) ==
    IF Len(feature) = 0 THEN <<"">>
    ELSE LET rest == Split(Tail(feature)) IN
         IF Head(feature) = ","
         THEN <<"">> \o rest
         ELSE <<Head(feature) \o rest[1]>> \o Tail(rest)

\* GetOr falling back on the last field instead of ""
GetOr_LastField(features, i) ==
    IF i + 1 <= Len(features) THEN features[i + 1] ELSE features[Len(features)]

\* features.get(i).unwrap_or(&""), i counted from 0 as in the source
GetOr(features, i) == IF i + 1 <= Len(features) THEN features[i + 1] ELSE ""

\* features[..6] panics when the Vec holds fewer than 6 fields
SlicePanics(features) == Len(features) < 6

\* the error values of the two bail! sites; `literal` is the surface the
\* message is formatted with, if any
MalformedFeature ==
    [kind |-> "MalformedFeature", literal |-> NoToken]
UnrecognizedPrimaryPos(raw_token) ==
    [kind |-> "UnrecognizedPrimaryPos", literal |-> Some(raw_token.surface)]

\* if(parsed_pos == POS::Unset) { bail!(...) }
PrimaryRejected(parsed_pos) == parsed_pos = "Unset"

\* Prepare with inflection type and inflection form taken from each
\* other's field
Prepare_SwappedInflection(raw_token, features) ==
    PreparedToken(raw_token.surface,
                  POSFrom(features[1]), POSFrom(features[2]),
                  POSFrom(features[3]), POSFrom(features[4]),
                  POSFrom(features[6]), POSFrom(features[5]),
                  GetOr(features, 7), GetOr(features, 8), GetOr(features, 9))

\* Ok(PreparedToken { ... }) of the closure
Prepare(raw_token, features) ==
    PreparedToken(raw_token.surface,
                  POSFrom(features[1]), POSFrom(features[2]),
                  POSFrom(features[3]), POSFrom(features[4]),
                  POSFrom(features[5]), POSFrom(features[6]),
                  GetOr(features, 7), GetOr(features, 8), GetOr(features, 9))

\* one call of the closure by map(...).collect(): collect stops at the
\* first Err, a panic unwinds out of prepare_tokens
PrepareStep ==
    /\ presult = "running"
    /\ ridx < Len(raw_tokens)
    /\ LET raw_token == raw_tokens[ridx + 1]
           features == Split(raw_token.feature)
       IN /\ ridx' = ridx + 1
          /\ IF SlicePanics(features)
             THEN /\ presult' = "panic"
                  /\ UNCHANGED <<prepared, perror>>
             ELSE IF Len(SubSeq(features, 1, 6)) # 6
             THEN /\ presult' = "err"
                  /\ perror' = Some(MalformedFeature)
                  /\ UNCHANGED prepared
             ELSE IF PrimaryRejected(POSFrom(features[1]))
             THEN /\ presult' = "err"
                  /\ perror' = Some(UnrecognizedPrimaryPos(raw_token))
                  /\ UNCHANGED prepared
             ELSE /\ prepared' = Append(prepared, Prepare(raw_token, features))
                  /\ UNCHANGED <<presult, perror>>
    /\ UNCHANGED <<raw_tokens, parseVars>>

\* the iterator is exhausted: Ok(vec)
PrepareReturn ==
    /\ presult = "running"
    /\ ridx = Len(raw_tokens)
    /\ presult' = "ok"
    /\ UNCHANGED <<raw_tokens, ridx, prepared, perror, parseVars>>

(***************************************************************************)
(* The rule grammar of parse_into_words: the flags one loop iteration      *)
(* computes for `token`, given the peeked `following` token, the           *)
(* `previous` token and the words built so far.                            *)
(***************************************************************************)
Flags == [pos |-> None, grammar |-> None, eat_next |-> FALSE,
          eat_lemma |-> FALSE, attach_to_previous |-> FALSE,
          also_attach_to_lemma |-> FALSE, update_pos |-> FALSE]

\* StemRule that asks for the lookahead without a successful peek
StemRule_NoPeekGuard(following) ==
    IF Len(following) = 0
    THEN [Flags EXCEPT !.pos = "Adjective", !.eat_next = TRUE]
    ELSE LET f == following[1] IN
         IF f.inflection_type = "SahenSuru"
         THEN [Flags EXCEPT !.pos = "Verb", !.eat_next = TRUE]
         ELSE IF f.inflection_type = "TokushuDa"
         THEN [Flags EXCEPT !.pos = "Adjective",
                            !.eat_next = (f.inflection_form = "Taigensetsuzoku")]
         ELSE IF f.inflection_type = "TokushuNai"
         THEN [Flags EXCEPT !.pos = "Adjective", !.eat_next = TRUE]
         ELSE IF f.pos = "Joshi" /\ f.literal = NI
         THEN [Flags EXCEPT !.pos = "Adverb"]
         ELSE Flags

\* StemRule that consumes every following token of inflection type
\* 特殊・ダ, whatever its inflection form
StemRule_EatsEveryCopula(following) ==
    IF Len(following) = 0 THEN Flags
    ELSE LET f == following[1] IN
         IF f.inflection_type = "SahenSuru"
         THEN [Flags EXCEPT !.pos = "Verb", !.eat_next = TRUE]
         ELSE IF f.inflection_type = "TokushuDa"
         THEN [Flags EXCEPT !.pos = "Adjective", !.eat_next = TRUE]
         ELSE IF f.inflection_type = "TokushuNai"
         THEN [Flags EXCEPT !.pos = "Adjective", !.eat_next = TRUE]
         ELSE IF f.pos = "Joshi" /\ f.literal = NI
         THEN [Flags EXCEPT !.pos = "Adverb"]
         ELSE Flags

\* match arm POS::Fukushikanou | Sahensetsuzoku | Keiyoudoushigokan |
\* Naikeiyoushigokan of the match on token.pos2
StemRule(following) ==
    IF Len(following) = 0 THEN Flags
    ELSE LET f == following[1] IN
         IF f.inflection_type = "SahenSuru"
         THEN [Flags EXCEPT !.pos = "Verb", !.eat_next = TRUE]
         ELSE IF f.inflection_type = "TokushuDa"
         THEN [Flags EXCEPT !.pos = "Adjective",
                            !.eat_next = (f.inflection_form = "Taigensetsuzoku")]
         ELSE IF f.inflection_type = "TokushuNai"
         THEN [Flags EXCEPT !.pos = "Adjective", !.eat_next = TRUE]
         ELSE IF f.pos = "Joshi" /\ f.literal = NI
         THEN [Flags EXCEPT !.pos = "Adverb"]
         ELSE Flags

\* DependentRule that tags the word Auxillary only when it consumes the
\* following token
DependentRule_AuxiliaryWhenEaten(token, following) ==
    IF Len(following) = 0 THEN Flags
    ELSE LET f == following[1] IN
         CASE token.pos3 = "Fukushikanou" ->
                IF f.pos = "Joshi" /\ f.literal = NI
                THEN [Flags EXCEPT !.pos = "Adverb", !.eat_next = TRUE]
                ELSE Flags
           [] token.pos3 = "Jodoushigokan" ->
                IF f.inflection_type = "TokushuDa"
                THEN IF f.inflection_form = "Taigensetsuzoku"
                     THEN [Flags EXCEPT !.pos = "Verb", !.grammar = "Auxillary",
                                        !.eat_next = TRUE]
                     ELSE [Flags EXCEPT !.pos = "Verb"]
                ELSE IF f.pos = "Joshi" /\ f.pos2 = "Fukushika"
                THEN [Flags EXCEPT !.pos = "Adverb", !.eat_next = TRUE]
                ELSE Flags
           [] token.pos3 = "Keiyoudoushigokan" ->
                [Flags EXCEPT !.pos = "Adjective",
                    !.eat_next = (\/ (/\ f.inflection_type = "TokushuDa"
                                      /\ f.inflection_form = "Taigensetsuzoku")
                                  \/ f.pos2 = "Rentaika")]
           [] OTHER -> Flags

\* match arm POS::Hijiritsu | POS::Tokushu of the match on token.pos2
DependentRule(token, following) ==
    IF Len(following) = 0 THEN Flags
    ELSE LET f == following[1] IN
         CASE token.pos3 = "Fukushikanou" ->
                IF f.pos = "Joshi" /\ f.literal = NI
                THEN [Flags EXCEPT !.pos = "Adverb", !.eat_next = TRUE]
                ELSE Flags
           [] token.pos3 = "Jodoushigokan" ->
                IF f.inflection_type = "TokushuDa"
                THEN [Flags EXCEPT !.pos = "Verb", !.grammar = "Auxillary",
                        !.eat_next = (f.inflection_form = "Taigensetsuzoku")]
                ELSE IF f.pos = "Joshi" /\ f.pos2 = "Fukushika"
                THEN [Flags EXCEPT !.pos = "Adverb", !.eat_next = TRUE]
                ELSE Flags
           [] token.pos3 = "Keiyoudoushigokan" ->
                [Flags EXCEPT !.pos = "Adjective",
                    !.eat_next = (\/ (/\ f.inflection_type = "TokushuDa"
                                      /\ f.inflection_form = "Taigensetsuzoku")
                                  \/ f.pos2 = "Rentaika")]
           [] OTHER -> Flags

\* a numeral rule that chains without extending the lemma
NumberRule_NoLemma(ws) ==
    IF Len(ws) > 0 /\ ws[Len(ws)].part_of_speech = "Number"
    THEN [Flags EXCEPT !.pos = "Number", !.attach_to_previous = TRUE]
    ELSE [Flags EXCEPT !.pos = "Number"]

\* match arm POS::Kazu
NumberRule(ws) ==
    IF Len(ws) > 0 /\ ws[Len(ws)].part_of_speech = "Number"
    THEN [Flags EXCEPT !.pos = "Number", !.attach_to_previous = TRUE,
                       !.also_attach_to_lemma = TRUE]
    ELSE [Flags EXCEPT !.pos = "Number"]

\* a suffix rule that extends the lemma under the nominalizing suffix too
SuffixRule_AlwaysLemma(token) ==
    IF token.pos3 = "Jinmei"
    THEN [Flags EXCEPT !.pos = "Suffix"]
    ELSE IF token.pos3 = "Tokushu" /\ token.lemma = SA
    THEN [Flags EXCEPT !.pos = "Noun", !.update_pos = TRUE,
                       !.also_attach_to_lemma = TRUE,
                       !.attach_to_previous = TRUE]
    ELSE [Flags EXCEPT !.also_attach_to_lemma = TRUE,
                       !.attach_to_previous = TRUE]

\* match arm POS::Setsubi
SuffixRule(token) ==
    IF token.pos3 = "Jinmei"
    THEN [Flags EXCEPT !.pos = "Suffix"]
    ELSE IF token.pos3 = "Tokushu" /\ token.lemma = SA
    THEN [Flags EXCEPT !.pos = "Noun", !.update_pos = TRUE,
                       !.attach_to_previous = TRUE]
    ELSE [Flags EXCEPT !.also_attach_to_lemma = TRUE,
                       !.attach_to_previous = TRUE]

\* the inner match on token.pos2 of the arm POS::Meishi; pos stays None
\* where no arm assigns it
MeishiSubRule(token, following, ws) ==
    CASE token.pos2 = "KoyuuMeishi" -> [Flags EXCEPT !.pos = "ProperNoun"]
      [] token.pos2 = "DaiMeishi" -> [Flags EXCEPT !.pos = "Pronoun"]
      [] token.pos2 \in {"Fukushikanou", "Sahensetsuzoku",
                         "Keiyoudoushigokan", "Naikeiyoushigokan"} ->
            StemRule(following)
      [] token.pos2 \in {"Hijiritsu", "Tokushu"} ->
            DependentRule(token, following)
      [] token.pos2 = "Kazu" -> NumberRule(ws)
      [] token.pos2 = "Setsubi" -> SuffixRule(token)
      [] token.pos2 = "Setsuzokushiteki" -> [Flags EXCEPT !.pos = "Conjunction"]
      [] token.pos2 = "Doushihijiritsuteki" ->
            [Flags EXCEPT !.pos = "Verb", !.grammar = "Nominal"]
      [] OTHER -> Flags

\* arm POS::Meishi: pos = Some(Noun) first, then the match on pos2
MeishiRule(token, following, ws) ==
    LET sub == MeishiSubRule(token, following, ws) IN
    IF sub.pos = None THEN [sub EXCEPT !.pos = "Noun"] ELSE sub

\* an auxiliary rule whose first clause classifies but does not attach
JoDoushiRule_NoAttach(token, prev) ==
    IF /\ (Len(prev) = 0 \/ prev[1].pos2 # "Kakarijoshi")
       /\ token.inflection_type \in {"TokushuTa", "TokushuNai", "TokushuTai",
                                     "TokushuMasu", "TokushuNu"}
    THEN [Flags EXCEPT !.pos = "Postposition"]
    ELSE IF token.inflection_type = "Fuhenkagata" /\ token.lemma = NN
    THEN [Flags EXCEPT !.pos = "Postposition", !.attach_to_previous = TRUE]
    ELSE IF /\ token.inflection_type \in {"TokushuDa", "TokushuDesu"}
            /\ token.literal # NA
    THEN [Flags EXCEPT !.pos = "Verb"]
    ELSE [Flags EXCEPT !.pos = "Postposition"]

\* arm POS::JoDoushi
JoDoushiRule(token, prev) ==
    IF /\ (Len(prev) = 0 \/ prev[1].pos2 # "Kakarijoshi")
       /\ token.inflection_type \in {"TokushuTa", "TokushuNai", "TokushuTai",
                                     "TokushuMasu", "TokushuNu"}
    THEN [Flags EXCEPT !.pos = "Postposition", !.attach_to_previous = TRUE]
    ELSE IF token.inflection_type = "Fuhenkagata" /\ token.lemma = NN
    THEN [Flags EXCEPT !.pos = "Postposition", !.attach_to_previous = TRUE]
    ELSE IF /\ token.inflection_type \in {"TokushuDa", "TokushuDesu"}
            /\ token.literal # NA
    THEN [Flags EXCEPT !.pos = "Verb"]
    ELSE [Flags EXCEPT !.pos = "Postposition"]

\* DoushiRule that attaches a dependent verb in the imperative as well
DoushiRule_ImperativeAttaches(token) ==
    [Flags EXCEPT !.pos = "Verb",
        !.attach_to_previous = token.pos2 \in {"Setsubi", "Hijiritsu"}]

\* arm POS::Doushi
DoushiRule(token) ==
    [Flags EXCEPT !.pos = "Verb",
        !.attach_to_previous =
            (\/ token.pos2 = "Setsubi"
             \/ (token.pos2 = "Hijiritsu" /\ token.inflection_form # "MeireiI"))]

\* JoshiRule that attaches every conjunctive particle, whatever its literal
JoshiRule_AnyConjunctive(token) ==
    [Flags EXCEPT !.pos = "Postposition",
        !.attach_to_previous = (token.pos2 = "Setsuzokujoshi")]

\* arm POS::Joshi
JoshiRule(token) ==
    [Flags EXCEPT !.pos = "Postposition",
        !.attach_to_previous = (/\ token.pos2 = "Setsuzokujoshi"
                                /\ token.literal \in {TE, DE, BA})]

\* Rule whose catch-all arm assigns PartOfSpeech::Unknown
Rule_CatchAllUnknown(token, following, prev, ws) ==
    CASE token.pos = "Meishi" -> MeishiRule(token, following, ws)
      [] token.pos = "Settoushi" -> [Flags EXCEPT !.pos = "Prefix"]
      [] token.pos = "JoDoushi" -> JoDoushiRule(token, prev)
      [] token.pos = "Doushi" -> DoushiRule(token)
      [] token.pos = "Keiyoushi" -> [Flags EXCEPT !.pos = "Adjective"]
      [] token.pos = "Joshi" -> JoshiRule(token)
      [] token.pos = "Rentaishi" -> [Flags EXCEPT !.pos = "Determiner"]
      [] token.pos = "Setsuzokushi" -> [Flags EXCEPT !.pos = "Conjunction"]
      [] token.pos = "Fukushi" -> [Flags EXCEPT !.pos = "Adverb"]
      [] token.pos = "Kigou" -> [Flags EXCEPT !.pos = "Symbol"]
      [] token.pos \in {"Firaa", "Kandoushi"} -> [Flags EXCEPT !.pos = "Interjection"]
      [] token.pos = "Sonota" -> [Flags EXCEPT !.pos = "Other"]
      [] OTHER -> [Flags EXCEPT !.pos = "Unknown"]

\* the match on token.pos
Rule(token, following, prev, ws) ==
    CASE token.pos = "Meishi" -> MeishiRule(token, following, ws)
      [] token.pos = "Settoushi" -> [Flags EXCEPT !.pos = "Prefix"]
      [] token.pos = "JoDoushi" -> JoDoushiRule(token, prev)
      [] token.pos = "Doushi" -> DoushiRule(token)
      [] token.pos = "Keiyoushi" -> [Flags EXCEPT !.pos = "Adjective"]
      [] token.pos = "Joshi" -> JoshiRule(token)
      [] token.pos = "Rentaishi" -> [Flags EXCEPT !.pos = "Determiner"]
      [] token.pos = "Setsuzokushi" -> [Flags EXCEPT !.pos = "Conjunction"]
      [] token.pos = "Fukushi" -> [Flags EXCEPT !.pos = "Adverb"]
      [] token.pos = "Kigou" -> [Flags EXCEPT !.pos = "Symbol"]
      [] token.pos \in {"Firaa", "Kandoushi"} -> [Flags EXCEPT !.pos = "Interjection"]
      [] token.pos = "Sonota" -> [Flags EXCEPT !.pos = "Other"]
      [] OTHER -> Flags

\* an attach branch that always overwrites the part of speech
AttachToken_AlwaysUpdatePos(last, token, r) ==
    [last EXCEPT
        !.word = @ \o token.literal,
        !.extra = [@ EXCEPT !.reading = @ \o token.reading,
                            !.transcription = @ \o token.hatsuon],
        !.lemma = IF r.also_attach_to_lemma THEN @ \o token.lemma ELSE @,
        !.part_of_speech = r.pos,
        !.tokens = Append(@, token)]

(***************************************************************************)
(* The two ways a token enters the word list (lib.rs 418-466)              *)
(***************************************************************************)
\* AttachToken without last.tokens.push(token)
AttachToken_NoPush(last, token, r) ==
    [last EXCEPT
        !.word = @ \o token.literal,
        !.extra = [@ EXCEPT !.reading = @ \o token.reading,
                            !.transcription = @ \o token.hatsuon],
        !.lemma = IF r.also_attach_to_lemma THEN @ \o token.lemma ELSE @,
        !.part_of_speech = IF r.update_pos THEN r.pos ELSE @]

\* if attach_to_previous && words.len() > 0 { ... }: the new last word
AttachToken(last, token, r) ==
    [last EXCEPT
        !.word = @ \o token.literal,
        !.extra = [@ EXCEPT !.reading = @ \o token.reading,
                            !.transcription = @ \o token.hatsuon],
        !.lemma = IF r.also_attach_to_lemma THEN @ \o token.lemma ELSE @,
        !.part_of_speech = IF r.update_pos THEN r.pos ELSE @,
        !.tokens = Append(@, token)]

\* NewWord with reading and transcription taken from each other's field
NewWord_SwappedReading(token, r) ==
    Word(token.literal, token.lemma, r.pos, <<token>>,
         token.hatsuon, token.reading, r.grammar)

\* let mut word = Word { ... }
NewWord(token, r) ==
    Word(token.literal, token.lemma, r.pos, <<token>>,
         token.reading, token.hatsuon, r.grammar)

\* the eat_next block with the lemma of the following token pushed as well
EatNext_WithLemma(word, following, r) ==
    [word EXCEPT
        !.word = @ \o following.literal,
        !.extra = [@ EXCEPT !.reading = @ \o following.reading,
                            !.transcription = @ \o following.hatsuon],
        !.lemma = @ \o following.lemma,
        !.tokens = Append(@, following)]

\* EatNext without word.word.push_str(&following.literal)
EatNext_NoLiteral(word, following, r) ==
    [word EXCEPT
        !.extra = [@ EXCEPT !.reading = @ \o following.reading,
                            !.transcription = @ \o following.hatsuon],
        !.lemma = IF r.eat_lemma THEN @ \o following.lemma ELSE @,
        !.tokens = Append(@, following)]

\* if eat_next { ... }: the word after the following token is pushed onto it
EatNext(word, following, r) ==
    [word EXCEPT
        !.word = @ \o following.literal,
        !.extra = [@ EXCEPT !.reading = @ \o following.reading,
                            !.transcription = @ \o following.hatsuon],
        !.lemma = IF r.eat_lemma THEN @ \o following.lemma ELSE @,
        !.tokens = Append(@, following)]

\* iter.peek()
Peek(toks, i) == IF i + 2 <= Len(toks) THEN Some(toks[i + 2]) ELSE NoToken

\* the error values of the two bail! sites; `literal` is the token literal
\* the message is formatted with, if any
UnresolvedPartOfSpeech(token) ==
    [kind |-> "UnresolvedPartOfSpeech", literal |-> Some(token.literal)]
MissingLookaheadToken ==
    [kind |-> "MissingLookaheadToken", literal |-> NoToken]

\* an iteration whose attach branch is not guarded by words.len() > 0: with
\* no word to attach to, the token is dropped
ParseStep_AttachUnguarded ==
    /\ result = "running"
    /\ idx < Len(tokens)
    /\ LET token == tokens[idx + 1]
           following == Peek(tokens, idx)
           r == Rule(token, following, previous, words)
       IN IF r.pos = None
          THEN /\ result' = "err"
               /\ error' = Some(UnresolvedPartOfSpeech(token))
               /\ idx' = idx + 1
               /\ UNCHANGED <<words, previous, eaten>>
          ELSE IF r.attach_to_previous
          THEN /\ words' = IF Len(words) = 0 THEN words
                           ELSE [words EXCEPT
                                    ![Len(words)] = AttachToken(@, token, r)]
               /\ idx' = idx + 1
               /\ previous' = Some(token)
               /\ UNCHANGED <<result, error, eaten>>
          ELSE IF r.eat_next /\ Len(following) = 0
          THEN /\ result' = "err"
               /\ error' = Some(MissingLookaheadToken)
               /\ idx' = idx + 1
               /\ UNCHANGED <<words, previous, eaten>>
          ELSE IF r.eat_next
          THEN /\ words' = Append(words,
                                  EatNext(NewWord(token, r), following[1], r))
               /\ idx' = idx + 2
               /\ eaten' = eaten \cup {idx + 2}
               /\ previous' = Some(token)
               /\ UNCHANGED <<result, error>>
          ELSE /\ words' = Append(words, NewWord(token, r))
               /\ idx' = idx + 1
               /\ previous' = Some(token)
               /\ UNCHANGED <<result, error, eaten>>
    /\ UNCHANGED <<tokens, prepVars>>

\* an iteration whose eat_next block reads the following token with peek()
\* and leaves it in the iterator
ParseStep_PeekOnly ==
    /\ result = "running"
    /\ idx < Len(tokens)
    /\ LET token == tokens[idx + 1]
           following == Peek(tokens, idx)
           r == Rule(token, following, previous, words)
       IN IF r.pos = None
          THEN /\ result' = "err"
               /\ error' = Some(UnresolvedPartOfSpeech(token))
               /\ idx' = idx + 1
               /\ UNCHANGED <<words, previous, eaten>>
          ELSE IF r.attach_to_previous /\ Len(words) > 0
          THEN /\ words' = [words EXCEPT
                              ![Len(words)] = AttachToken(@, token, r)]
               /\ idx' = idx + 1
               /\ previous' = Some(token)
               /\ UNCHANGED <<result, error, eaten>>
          ELSE IF r.eat_next /\ Len(following) = 0
          THEN /\ result' = "err"
               /\ error' = Some(MissingLookaheadToken)
               /\ idx' = idx + 1
               /\ UNCHANGED <<words, previous, eaten>>
          ELSE IF r.eat_next
          THEN /\ words' = Append(words,
                                  EatNext(NewWord(token, r), following[1], r))
               /\ idx' = idx + 1
               /\ eaten' = eaten \cup {idx + 2}
               /\ previous' = Some(token)
               /\ UNCHANGED <<result, error>>
          ELSE /\ words' = Append(words, NewWord(token, r))
               /\ idx' = idx + 1
               /\ previous' = Some(token)
               /\ UNCHANGED <<result, error, eaten>>
    /\ UNCHANGED <<tokens, prepVars>>

(***************************************************************************)
(* parse_into_words: one iteration of `while let Some(token) = iter.next()`*)
(***************************************************************************)
ParseStep ==
    /\ result = "running"
    /\ idx < Len(tokens)
    /\ LET token == tokens[idx + 1]
           following == Peek(tokens, idx)
           r == Rule(token, following, previous, words)
       IN IF r.pos = None
          THEN /\ result' = "err"
               /\ error' = Some(UnresolvedPartOfSpeech(token))
               /\ idx' = idx + 1
               /\ UNCHANGED <<words, previous, eaten>>
          ELSE IF r.attach_to_previous /\ Len(words) > 0
          THEN /\ words' = [words EXCEPT
                              ![Len(words)] = AttachToken(@, token, r)]
               /\ idx' = idx + 1
               /\ previous' = Some(token)
               /\ UNCHANGED <<result, error, eaten>>
          ELSE IF r.eat_next /\ Len(following) = 0
          THEN /\ result' = "err"
               /\ error' = Some(MissingLookaheadToken)
               /\ idx' = idx + 1
               /\ UNCHANGED <<words, previous, eaten>>
          ELSE IF r.eat_next
          THEN /\ words' = Append(words,
                                  EatNext(NewWord(token, r), following[1], r))
               /\ idx' = idx + 2
               /\ eaten' = eaten \cup {idx + 2}
               /\ previous' = Some(token)
               /\ UNCHANGED <<result, error>>
          ELSE /\ words' = Append(words, NewWord(token, r))
               /\ idx' = idx + 1
               /\ previous' = Some(token)
               /\ UNCHANGED <<result, error, eaten>>
    /\ UNCHANGED <<tokens, prepVars>>

\* ParseReturn that returns only once a word has been built
ParseReturn_OnlyWithWords ==
    /\ result = "running"
    /\ idx = Len(tokens)
    /\ Len(words) > 0
    /\ result' = "ok"
    /\ UNCHANGED <<tokens, idx, words, previous, error, eaten, prepVars>>

\* iter.next() is None: Ok(words)
ParseReturn ==
    /\ result = "running"
    /\ idx = Len(tokens)
    /\ result' = "ok"
    /\ UNCHANGED <<tokens, idx, words, previous, error, eaten, prepVars>>

(***************************************************************************)
(* Inputs of parse_into_words.  Every token is one prepare_tokens can      *)
(* return: its primary tag is never Unset.  IPADIC labels that POS::from   *)
(* does not know (一般, 自立, 格助詞, 助数詞, 基本形, ...) are Unknown.      *)
(***************************************************************************)
\* a token with no fourth level
Tok(literal, pos, pos2, pos3, inflection_type, inflection_form, lemma, reading, hatsuon) ==
    PreparedToken(literal, pos, pos2, pos3, "Unset", inflection_type,
                  inflection_form, lemma, reading, hatsuon)

TokenPool == {
    \* 猫 名詞,一般
    Tok("neko", "Meishi", "Unknown", "Unset", "Unset", "Unset",
        "neko", "NEKO", "Neko"),
    \* 3 名詞,数
    Tok("3", "Meishi", "Kazu", "Unset", "Unset", "Unset",
        "san", "SAN", "San"),
    \* 人 名詞,接尾,助数詞
    Tok("nin", "Meishi", "Setsubi", "Unknown", "Unset", "Unset",
        "hito", "NIN", "Nin"),
    \* さん 名詞,接尾,人名
    Tok("san", "Meishi", "Setsubi", "Jinmei", "Unset", "Unset",
        "sama", "SAMA", "Sama"),
    \* さ 名詞,接尾,特殊
    Tok("sa", "Meishi", "Setsubi", "Tokushu", "Unset", "Unset",
        SA, "SA", "Sa"),
    \* 勉強 名詞,サ変接続
    Tok("benkyou", "Meishi", "Sahensetsuzoku", "Unset", "Unset", "Unset",
        "benkyou", "BENKYOU", "Benkyo-"),
    \* 元気 名詞,形容動詞語幹
    Tok("genki", "Meishi", "Keiyoudoushigokan", "Unset", "Unset", "Unset",
        "genki", "GENKI", "Genki"),
    \* ため 名詞,非自立,副詞可能
    Tok("tame", "Meishi", "Hijiritsu", "Fukushikanou", "Unset", "Unset",
        "tame", "TAME", "Tame"),
    \* よう 名詞,非自立,助動詞語幹
    Tok("you", "Meishi", "Hijiritsu", "Jodoushigokan", "Unset", "Unset",
        "you", "YOU", "Yo-"),
    \* みたい 名詞,特殊,形容動詞語幹
    Tok("mitai", "Meishi", "Tokushu", "Keiyoudoushigokan", "Unset", "Unset",
        "mitai", "MITAI", "Mitai"),
    \* する 動詞,自立 サ変・スル 基本形
    Tok("suru", "Doushi", "Unknown", "Unset", "SahenSuru", "Unknown",
        "suru", "SURU", "Suru"),
    \* いる 動詞,非自立 一段 基本形
    Tok("iru", "Doushi", "Hijiritsu", "Unset", "Unknown", "Unknown",
        "iru", "IRU", "Iru"),
    \* だ 助動詞 特殊・ダ 基本形
    Tok("da", "JoDoushi", "Unset", "Unset", "TokushuDa", "Unknown",
        "da", "DA", "Da"),
    \* な 助動詞 特殊・ダ 体言接続
    Tok(NA, "JoDoushi", "Unset", "Unset", "TokushuDa", "Taigensetsuzoku",
        "da", "NA", "Na"),
    \* た 助動詞 特殊・タ 基本形
    Tok("ta", "JoDoushi", "Unset", "Unset", "TokushuTa", "Unknown",
        "ta", "TA", "Ta"),
    \* ない 助動詞 特殊・ナイ 基本形
    Tok("nai", "JoDoushi", "Unset", "Unset", "TokushuNai", "Unknown",
        "nai", "NAI", "Nai"),
    \* に 助詞,格助詞
    Tok(NI, "Joshi", "Unknown", "Unknown", "Unset", "Unset",
        "ni", "NI", "Ni"),
    \* は 助詞,係助詞
    Tok("ha", "Joshi", "Kakarijoshi", "Unset", "Unset", "Unset",
        "ha", "HA", "Wa"),
    \* て 助詞,接続助詞
    Tok(TE, "Joshi", "Setsuzokujoshi", "Unset", "Unset", "Unset",
        "te", "TE", "Te"),
    \* と 助詞,副詞化
    Tok("to", "Joshi", "Fukushika", "Unset", "Unset", "Unset",
        "to", "TO", "To"),
    \* の 助詞,連体化
    Tok("no", "Joshi", "Rentaika", "Unset", "Unset", "Unset",
        "no", "NO", "No"),
    \* 。 記号,句点
    Tok(".", "Kigou", "Unknown", "Unset", "Unset", "Unset",
        ".", ".", "."),
    \* a primary label POS::from does not know
    Tok("xyz", "Unknown", "Unset", "Unset", "Unset", "Unset",
        "xyz", "XYZ", "Xyz"),
    \* a primary label POS::from knows that is no primary category: 数
    Tok("kazu", "Kazu", "Unset", "Unset", "SahenSuru", "Unset",
        "kazu", "KAZU", "Kazu")
}

\* prepare_tokens is not running
PrepIdle ==
    /\ raw_tokens = <<>>
    /\ ridx = 0
    /\ prepared = <<>>
    /\ presult = "idle"
    /\ perror = NoToken

\* the state at the head of the loop of parse_into_words(toks)
ParseInit(toks) ==
    /\ tokens = toks
    /\ idx = 0
    /\ words = <<>>
    /\ previous = NoToken
    /\ result = "running"
    /\ error = NoToken
    /\ eaten = {}

Init ==
    /\ PrepIdle
    /\ \E n \in 0..MaxLen : \E toks \in [1..n -> TokenPool] : ParseInit(toks)

Next == ParseStep \/ ParseReturn

Spec == Init /\ [][Next]_vars

(***************************************************************************)
(* A second set of inputs of parse_into_words: a token for every arm of    *)
(* the match on token.pos, for the arms of the match on pos2 that only     *)
(* assign a part of speech, and for primary tags no arm matches.           *)
(***************************************************************************)
RuleTablePool == {
    \* 猫 名詞,一般
    Tok("neko", "Meishi", "Unknown", "Unset", "Unset", "Unset",
        "neko", "NEKO", "Neko"),
    \* 東京 名詞,固有名詞
    Tok("toukyou", "Meishi", "KoyuuMeishi", "Unknown", "Unset", "Unset",
        "toukyou", "TOUKYOU", "To-kyo-"),
    \* 私 名詞,代名詞
    Tok("watashi", "Meishi", "DaiMeishi", "Unknown", "Unset", "Unset",
        "watashi", "WATASHI", "Watashi"),
    \* 対 名詞,接続詞的
    Tok("tai", "Meishi", "Setsuzokushiteki", "Unset", "Unset", "Unset",
        "tai", "TAI", "Tai"),
    \* ごらん 名詞,動詞非自立的
    Tok("goran", "Meishi", "Doushihijiritsuteki", "Unset", "Unset", "Unset",
        "goran", "GORAN", "Goran"),
    \* 勉強 名詞,サ変接続
    Tok("benkyou", "Meishi", "Sahensetsuzoku", "Unset", "Unset", "Unset",
        "benkyou", "BENKYOU", "Benkyo-"),
    \* お 接頭詞
    Tok("o", "Settoushi", "Unknown", "Unset", "Unset", "Unset",
        "o", "O", "O"),
    \* だ 助動詞 特殊・ダ 基本形
    Tok("da", "JoDoushi", "Unset", "Unset", "TokushuDa", "Unknown",
        "da", "DA", "Da"),
    \* 食べる 動詞,自立
    Tok("taberu", "Doushi", "Unknown", "Unset", "Unknown", "Unknown",
        "taberu", "TABERU", "Taberu"),
    \* 赤い 形容詞,自立
    Tok("akai", "Keiyoushi", "Unknown", "Unset", "Unknown", "Unknown",
        "akai", "AKAI", "Akai"),
    \* を 助詞,格助詞
    Tok("wo", "Joshi", "Unknown", "Unknown", "Unset", "Unset",
        "wo", "WO", "O"),
    \* この 連体詞
    Tok("kono", "Rentaishi", "Unset", "Unset", "Unset", "Unset",
        "kono", "KONO", "Kono"),
    \* しかし 接続詞
    Tok("shikashi", "Setsuzokushi", "Unset", "Unset", "Unset", "Unset",
        "shikashi", "SHIKASHI", "Shikashi"),
    \* とても 副詞
    Tok("totemo", "Fukushi", "Unknown", "Unset", "Unset", "Unset",
        "totemo", "TOTEMO", "Totemo"),
    \* 。 記号,句点
    Tok(".", "Kigou", "Unknown", "Unset", "Unset", "Unset",
        ".", ".", "."),
    \* えーと フィラー
    Tok("e-to", "Firaa", "Unset", "Unset", "Unset", "Unset",
        "e-to", "E-TO", "E-to"),
    \* ああ 感動詞
    Tok("aa", "Kandoushi", "Unset", "Unset", "Unset", "Unset",
        "aa", "AA", "A-"),
    \* よ その他,間投
    Tok("yo", "Sonota", "Unknown", "Unset", "Unset", "Unset",
        "yo", "YO", "Yo"),
    \* a primary label POS::from does not know
    Tok("xyz", "Unknown", "Unset", "Unset", "Unset", "Unset",
        "xyz", "XYZ", "Xyz"),
    \* primary labels POS::from knows that are no primary category: 数, with
    \* the inflection type of する, and 接続助詞
    Tok("kazu", "Kazu", "Unset", "Unset", "SahenSuru", "Unset",
        "kazu", "KAZU", "Kazu"),
    Tok("node", "Setsuzokujoshi", "Unset", "Unset", "Unset", "Unset",
        "node", "NODE", "Node")
}

InitRuleTable ==
    /\ PrepIdle
    /\ \E n \in 0..MaxLen : \E toks \in [1..n -> RuleTablePool] : ParseInit(toks)

SpecRuleTable == InitRuleTable /\ [][Next]_vars

(***************************************************************************)
(* A third set of inputs of parse_into_words, for the rules that attach a  *)
(* token to the last word: numerals, Noun suffixes, dependent verbs,       *)
(* auxiliaries and conjunctive particles.  PreparedToken puts no           *)
(* constraint between the tags of a token, so the set holds a numeral that *)
(* carries an inflection type as well.                                     *)
(***************************************************************************)
AttachPool == {
    \* 猫 名詞,一般
    Tok("neko", "Meishi", "Unknown", "Unset", "Unset", "Unset",
        "neko", "NEKO", "Neko"),
    \* 3 名詞,数
    Tok("3", "Meishi", "Kazu", "Unset", "Unset", "Unset",
        "san", "SAN", "San"),
    \* 0 名詞,数
    Tok("0", "Meishi", "Kazu", "Unset", "Unset", "Unset",
        "zero", "ZERO", "Zero"),
    \* a numeral tagged with the inflection type サ変・スル
    Tok("9", "Meishi", "Kazu", "Unset", "SahenSuru", "Unset",
        "kyuu", "KYUU", "Kyu-"),
    \* 人 名詞,接尾,助数詞
    Tok("nin", "Meishi", "Setsubi", "Unknown", "Unset", "Unset",
        "hito", "NIN", "Nin"),
    \* さん 名詞,接尾,人名
    Tok("san", "Meishi", "Setsubi", "Jinmei", "Unset", "Unset",
        "sama", "SAMA", "Sama"),
    \* さ 名詞,接尾,特殊
    Tok("sa", "Meishi", "Setsubi", "Tokushu", "Unset", "Unset",
        SA, "SA", "Sa"),
    \* み 名詞,接尾,特殊
    Tok("mi", "Meishi", "Setsubi", "Tokushu", "Unset", "Unset",
        "mi", "MI", "Mi"),
    \* 勉強 名詞,サ変接続
    Tok("benkyou", "Meishi", "Sahensetsuzoku", "Unset", "Unset", "Unset",
        "benkyou", "BENKYOU", "Benkyo-"),
    \* する 動詞,自立 サ変・スル 基本形
    Tok("suru", "Doushi", "Unknown", "Unset", "SahenSuru", "Unknown",
        "suru", "SURU", "Suru"),
    \* いる 動詞,非自立 一段 基本形
    Tok("iru", "Doushi", "Hijiritsu", "Unset", "Unknown", "Unknown",
        "iru", "IRU", "Iru"),
    \* た 助動詞 特殊・タ 基本形
    Tok("ta", "JoDoushi", "Unset", "Unset", "TokushuTa", "Unknown",
        "ta", "TA", "Ta"),
    \* ご覧 名詞,動詞非自立的
    Tok("goran", "Meishi", "Doushihijiritsuteki", "Unset", "Unset", "Unset",
        "goran", "GORAN", "Goran"),
    \* は 助詞,係助詞
    Tok("ha", "Joshi", "Kakarijoshi", "Unset", "Unset", "Unset",
        "ha", "HA", "Wa"),
    \* て 助詞,接続助詞
    Tok(TE, "Joshi", "Setsuzokujoshi", "Unset", "Unset", "Unset",
        "te", "TE", "Te"),
    \* a primary label POS::from does not know
    Tok("xyz", "Unknown", "Unset", "Unset", "Unset", "Unset",
        "xyz", "XYZ", "Xyz")
}

InitAttach ==
    /\ PrepIdle
    /\ \E n \in 0..MaxLen : \E toks \in [1..n -> AttachPool] : ParseInit(toks)

SpecAttach == InitAttach /\ [][Next]_vars

(***************************************************************************)
(* A fourth set of inputs of parse_into_words, for the arm of auxiliary    *)
(* verbs: an auxiliary for every inflection type and lemma the arm tests,  *)
(* the verbs it fuses with, and the tokens the arm can find in `previous`. *)
(***************************************************************************)
AuxPool == {
    \* 猫 名詞,一般
    Tok("neko", "Meishi", "Unknown", "Unset", "Unset", "Unset",
        "neko", "NEKO", "Neko"),
    \* 勉強 名詞,サ変接続
    Tok("benkyou", "Meishi", "Sahensetsuzoku", "Unset", "Unset", "Unset",
        "benkyou", "BENKYOU", "Benkyo-"),
    \* ため 名詞,非自立,副詞可能
    Tok("tame", "Meishi", "Hijiritsu", "Fukushikanou", "Unset", "Unset",
        "tame", "TAME", "Tame"),
    \* さ 名詞,接尾,特殊
    Tok("sa", "Meishi", "Setsubi", "Tokushu", "Unset", "Unset",
        SA, "SA", "Sa"),
    \* 食べ 動詞,自立 一段 連用形
    Tok("tabe", "Doushi", "Unknown", "Unset", "Unknown", "Unknown",
        "taberu", "TABE", "Tabe"),
    \* し 動詞,自立 サ変・スル 連用形
    Tok("shi", "Doushi", "Unknown", "Unset", "SahenSuru", "Unknown",
        "suru", "SHI", "Shi"),
    \* ぶっ 動詞,接尾 五段・ラ行 連用タ接続
    Tok("bu", "Doushi", "Setsubi", "Unset", "Unknown", "Unknown",
        "buru", "BU", "Bu"),
    \* a verb whose second tag is 係助詞
    Tok("ki", "Doushi", "Kakarijoshi", "Unset", "Unknown", "Unknown",
        "kuru", "KI", "Ki"),
    \* は 助詞,係助詞
    Tok("ha", "Joshi", "Kakarijoshi", "Unset", "Unset", "Unset",
        "ha", "HA", "Wa"),
    \* に tagged 助詞,係助詞
    Tok(NI, "Joshi", "Kakarijoshi", "Unset", "Unset", "Unset",
        "ni", "NI", "Ni"),
    \* た 助動詞 特殊・タ
    Tok("ta", "JoDoushi", "Unset", "Unset", "TokushuTa", "Unknown",
        "ta", "TA", "Ta"),
    \* ない 助動詞 特殊・ナイ
    Tok("nai", "JoDoushi", "Unset", "Unset", "TokushuNai", "Unknown",
        "nai", "NAI", "Nai"),
    \* たい 助動詞 特殊・タイ
    Tok("tai", "JoDoushi", "Unset", "Unset", "TokushuTai", "Unknown",
        "tai", "TAI", "Tai"),
    \* ます 助動詞 特殊・マス
    Tok("masu", "JoDoushi", "Unset", "Unset", "TokushuMasu", "Unknown",
        "masu", "MASU", "Masu"),
    \* ぬ 助動詞 特殊・ヌ
    Tok("nu", "JoDoushi", "Unset", "Unset", "TokushuNu", "Unknown",
        "nu", "NU", "Nu"),
    \* ん 助動詞 不変化型
    Tok("n", "JoDoushi", "Unset", "Unset", "Fuhenkagata", "Unknown",
        NN, "N", "N"),
    \* う 助動詞 不変化型
    Tok("u", "JoDoushi", "Unset", "Unset", "Fuhenkagata", "Unknown",
        "u", "U", "U"),
    \* だ 助動詞 特殊・ダ 基本形
    Tok("da", "JoDoushi", "Unset", "Unset", "TokushuDa", "Unknown",
        "da", "DA", "Da"),
    \* です 助動詞 特殊・デス 基本形
    Tok("desu", "JoDoushi", "Unset", "Unset", "TokushuDesu", "Unknown",
        "desu", "DESU", "Desu"),
    \* な 助動詞 特殊・ダ 体言接続
    Tok(NA, "JoDoushi", "Unset", "Unset", "TokushuDa", "Taigensetsuzoku",
        "da", "NA", "Na"),
    \* らしい 助動詞 形容詞・イ段
    Tok("rashii", "JoDoushi", "Unset", "Unset", "Unknown", "Unknown",
        "rashii", "RASHII", "Rashi-")
}

InitAux ==
    /\ PrepIdle
    /\ \E n \in 0..MaxLen : \E toks \in [1..n -> AuxPool] : ParseInit(toks)

SpecAux == InitAux /\ [][Next]_vars

(***************************************************************************)
(* A fifth set of inputs of parse_into_words, for the Noun stems and the   *)
(* dependent Nouns that look at the following token, and for the grammar   *)
(* tag: the copula in three inflection forms, and a token of inflection    *)
(* type 特殊・ダ whose primary label POS::from does not know.               *)
(***************************************************************************)
StemPool == {
    \* 猫 名詞,一般
    Tok("neko", "Meishi", "Unknown", "Unset", "Unset", "Unset",
        "neko", "NEKO", "Neko"),
    \* 勉強 名詞,サ変接続
    Tok("benkyou", "Meishi", "Sahensetsuzoku", "Unset", "Unset", "Unset",
        "benkyou", "BENKYOU", "Benkyo-"),
    \* 元気 名詞,形容動詞語幹
    Tok("genki", "Meishi", "Keiyoudoushigokan", "Unset", "Unset", "Unset",
        "genki", "GENKI", "Genki"),
    \* 仕方 名詞,ナイ形容詞語幹
    Tok("shikata", "Meishi", "Naikeiyoushigokan", "Unset", "Unset", "Unset",
        "shikata", "SHIKATA", "Shikata"),
    \* 今日 名詞,副詞可能
    Tok("kyou", "Meishi", "Fukushikanou", "Unset", "Unset", "Unset",
        "kyou", "KYOU", "Kyo-"),
    \* よう 名詞,非自立,助動詞語幹
    Tok("you", "Meishi", "Hijiritsu", "Jodoushigokan", "Unset", "Unset",
        "you", "YOU", "Yo-"),
    \* そう 名詞,特殊,助動詞語幹
    Tok("sou", "Meishi", "Tokushu", "Jodoushigokan", "Unset", "Unset",
        "sou", "SOU", "So-"),
    \* みたい 名詞,特殊,形容動詞語幹
    Tok("mitai", "Meishi", "Tokushu", "Keiyoudoushigokan", "Unset", "Unset",
        "mitai", "MITAI", "Mitai"),
    \* ご覧 名詞,動詞非自立的
    Tok("goran", "Meishi", "Doushihijiritsuteki", "Unset", "Unset", "Unset",
        "goran", "GORAN", "Goran"),
    \* さ 名詞,接尾,特殊
    Tok("sa", "Meishi", "Setsubi", "Tokushu", "Unset", "Unset",
        SA, "SA", "Sa"),
    \* だ 助動詞 特殊・ダ 基本形
    Tok("da", "JoDoushi", "Unset", "Unset", "TokushuDa", "Unknown",
        "da", "DA", "Da"),
    \* な 助動詞 特殊・ダ 体言接続
    Tok(NA, "JoDoushi", "Unset", "Unset", "TokushuDa", "Taigensetsuzoku",
        "da", "NA", "Na"),
    \* で 助動詞 特殊・ダ 連用形
    Tok(DE, "JoDoushi", "Unset", "Unset", "TokushuDa", "Unknown",
        "da", "DE", "De"),
    \* a token of inflection type 特殊・ダ under a primary label POS::from
    \* does not know
    Tok("xda", "Unknown", "Unset", "Unset", "TokushuDa", "Unknown",
        "xda", "XDA", "Xda"),
    \* た 助動詞 特殊・タ 基本形
    Tok("ta", "JoDoushi", "Unset", "Unset", "TokushuTa", "Unknown",
        "ta", "TA", "Ta"),
    \* と 助詞,副詞化
    Tok("to", "Joshi", "Fukushika", "Unset", "Unset", "Unset",
        "to", "TO", "To"),
    \* に 助詞,格助詞
    Tok(NI, "Joshi", "Unknown", "Unset", "Unset", "Unset",
        "ni", "NI", "Ni")
}

InitStem ==
    /\ PrepIdle
    /\ \E n \in 0..MaxLen : \E toks \in [1..n -> StemPool] : ParseInit(toks)

SpecStem == InitStem /\ [][Next]_vars

(***************************************************************************)
(* A sixth set of inputs of parse_into_words, for the arm of verbs: a verb *)
(* for every value of pos2 and of the inflection form the arm tests, next  *)
(* to the tokens that consume a verb or are attached after one.            *)
(***************************************************************************)
VerbPool == {
    \* 猫 名詞,一般
    Tok("neko", "Meishi", "Unknown", "Unset", "Unset", "Unset",
        "neko", "NEKO", "Neko"),
    \* 勉強 名詞,サ変接続
    Tok("benkyou", "Meishi", "Sahensetsuzoku", "Unset", "Unset", "Unset",
        "benkyou", "BENKYOU", "Benkyo-"),
    \* さ 名詞,接尾,特殊
    Tok("sa", "Meishi", "Setsubi", "Tokushu", "Unset", "Unset",
        SA, "SA", "Sa"),
    \* 食べ 動詞,自立 一段 連用形
    Tok("tabe", "Doushi", "Unknown", "Unset", "Unknown", "Unknown",
        "taberu", "TABE", "Tabe"),
    \* する 動詞,自立 サ変・スル 基本形
    Tok("suru", "Doushi", "Unknown", "Unset", "SahenSuru", "Unknown",
        "suru", "SURU", "Suru"),
    \* しろ 動詞,自立 サ変・スル 命令ｒｏ
    Tok("shiro", "Doushi", "Unknown", "Unset", "SahenSuru", "Unknown",
        "suru", "SHIRO", "Shiro"),
    \* られ 動詞,接尾 一段 連用形
    Tok("rare", "Doushi", "Setsubi", "Unset", "Unknown", "Unknown",
        "rareru", "RARE", "Rare"),
    \* a suffix verb in the imperative 命令ｉ
    Tok("nasai", "Doushi", "Setsubi", "Unset", "Unknown", "MeireiI",
        "nasaru", "NASAI", "Nasai"),
    \* いる 動詞,非自立 一段 基本形
    Tok("iru", "Doushi", "Hijiritsu", "Unset", "Unknown", "Unknown",
        "iru", "IRU", "Iru"),
    \* ください 動詞,非自立 五段・ラ行特殊 命令ｉ
    Tok("kudasai", "Doushi", "Hijiritsu", "Unset", "Unknown", "MeireiI",
        "kudasaru", "KUDASAI", "Kudasai"),
    \* an independent verb in the imperative 命令ｉ
    Tok("nasare", "Doushi", "Unknown", "Unset", "Unknown", "MeireiI",
        "nasaru", "NASARE", "Nasare"),
    \* た 助動詞 特殊・タ 基本形
    Tok("ta", "JoDoushi", "Unset", "Unset", "TokushuTa", "Unknown",
        "ta", "TA", "Ta"),
    \* て 助詞,接続助詞
    Tok(TE, "Joshi", "Setsuzokujoshi", "Unset", "Unset", "Unset",
        "te", "TE", "Te")
}

InitVerb ==
    /\ PrepIdle
    /\ \E n \in 0..MaxLen : \E toks \in [1..n -> VerbPool] : ParseInit(toks)

SpecVerb == InitVerb /\ [][Next]_vars

(***************************************************************************)
(* A seventh set of inputs of parse_into_words, for the arm of particles:  *)
(* conjunctive particles with and without one of the three literals, the   *)
(* literal て under another sub-category, and the Nouns that look at a      *)
(* following particle.                                                     *)
(***************************************************************************)
ParticlePool == {
    \* 猫 名詞,一般
    Tok("neko", "Meishi", "Unknown", "Unset", "Unset", "Unset",
        "neko", "NEKO", "Neko"),
    \* 今日 名詞,副詞可能
    Tok("kyou", "Meishi", "Fukushikanou", "Unset", "Unset", "Unset",
        "kyou", "KYOU", "Kyo-"),
    \* ため 名詞,非自立,副詞可能
    Tok("tame", "Meishi", "Hijiritsu", "Fukushikanou", "Unset", "Unset",
        "tame", "TAME", "Tame"),
    \* よう 名詞,非自立,助動詞語幹
    Tok("you", "Meishi", "Hijiritsu", "Jodoushigokan", "Unset", "Unset",
        "you", "YOU", "Yo-"),
    \* みたい 名詞,特殊,形容動詞語幹
    Tok("mitai", "Meishi", "Tokushu", "Keiyoudoushigokan", "Unset", "Unset",
        "mitai", "MITAI", "Mitai"),
    \* さ 名詞,接尾,特殊
    Tok("sa", "Meishi", "Setsubi", "Tokushu", "Unset", "Unset",
        SA, "SA", "Sa"),
    \* 食べ 動詞,自立 一段 連用形
    Tok("tabe", "Doushi", "Unknown", "Unset", "Unknown", "Unknown",
        "taberu", "TABE", "Tabe"),
    \* に 助詞,格助詞
    Tok(NI, "Joshi", "Unknown", "Unset", "Unset", "Unset",
        "ni", "NI", "Ni"),
    \* は 助詞,係助詞
    Tok("ha", "Joshi", "Kakarijoshi", "Unset", "Unset", "Unset",
        "ha", "HA", "Wa"),
    \* て 助詞,接続助詞
    Tok(TE, "Joshi", "Setsuzokujoshi", "Unset", "Unset", "Unset",
        "te", "TE", "Te"),
    \* で 助詞,接続助詞
    Tok(DE, "Joshi", "Setsuzokujoshi", "Unset", "Unset", "Unset",
        "de", "DE", "De"),
    \* ば 助詞,接続助詞
    Tok(BA, "Joshi", "Setsuzokujoshi", "Unset", "Unset", "Unset",
        "ba", "BA", "Ba"),
    \* ながら 助詞,接続助詞
    Tok("nagara", "Joshi", "Setsuzokujoshi", "Unset", "Unset", "Unset",
        "nagara", "NAGARA", "Nagara"),
    \* で 助詞,格助詞
    Tok(DE, "Joshi", "Unknown", "Unset", "Unset", "Unset",
        "de", "DE", "De"),
    \* と 助詞,副詞化
    Tok("to", "Joshi", "Fukushika", "Unset", "Unset", "Unset",
        "to", "TO", "To"),
    \* の 助詞,連体化
    Tok("no", "Joshi", "Rentaika", "Unset", "Unset", "Unset",
        "no", "NO", "No")
}

InitParticle ==
    /\ PrepIdle
    /\ \E n \in 0..MaxLen : \E toks \in [1..n -> ParticlePool] : ParseInit(toks)

SpecParticle == InitParticle /\ [][Next]_vars

(***************************************************************************)
(* An eighth set of inputs of parse_into_words, one token for every way an *)
(* iteration ends: a new word, a new word with the lookahead consumed, an  *)
(* attachment, and the early return for an unresolved part of speech.      *)
(* parse_into_words is straight-line code around one loop, run by the      *)
(* calling thread with no blocking call, so an iteration that can run does *)
(* run: the loop is weakly fair.                                           *)
(***************************************************************************)
TerminationPool == {
    \* 猫 名詞,一般
    Tok("neko", "Meishi", "Unknown", "Unset", "Unset", "Unset",
        "neko", "NEKO", "Neko"),
    \* 3 名詞,数
    Tok("3", "Meishi", "Kazu", "Unset", "Unset", "Unset",
        "san", "SAN", "San"),
    \* 人 名詞,接尾,助数詞
    Tok("nin", "Meishi", "Setsubi", "Unknown", "Unset", "Unset",
        "hito", "NIN", "Nin"),
    \* 勉強 名詞,サ変接続
    Tok("benkyou", "Meishi", "Sahensetsuzoku", "Unset", "Unset", "Unset",
        "benkyou", "BENKYOU", "Benkyo-"),
    \* する 動詞,自立 サ変・スル 基本形
    Tok("suru", "Doushi", "Unknown", "Unset", "SahenSuru", "Unknown",
        "suru", "SURU", "Suru"),
    \* た 助動詞 特殊・タ 基本形
    Tok("ta", "JoDoushi", "Unset", "Unset", "TokushuTa", "Unknown",
        "ta", "TA", "Ta"),
    \* て 助詞,接続助詞
    Tok(TE, "Joshi", "Setsuzokujoshi", "Unset", "Unset", "Unset",
        "te", "TE", "Te"),
    \* は 助詞,係助詞
    Tok("ha", "Joshi", "Kakarijoshi", "Unset", "Unset", "Unset",
        "ha", "HA", "Wa"),
    \* a primary label POS::from does not know
    Tok("xyz", "Unknown", "Unset", "Unset", "Unset", "Unset",
        "xyz", "XYZ", "Xyz")
}

InitTermination ==
    /\ PrepIdle
    /\ \E n \in 0..MaxLen : \E toks \in [1..n -> TerminationPool] : ParseInit(toks)

SpecTermination == InitTermination /\ [][Next]_vars /\ WF_vars(Next)

(***************************************************************************)
(* Inputs of prepare_tokens: what the tokenizer hands over (test.rs 9-24), *)
(* the first n fields of an IPADIC feature string joined by commas.        *)
(***************************************************************************)
\* surface, first field and fields 2 to 6 of the morphemes:
\* 猫 名詞,数,*,*,*,*   さん 名詞,接尾,人名,一般,*,基本形
\* な 助動詞,*,*,*,特殊・ダ,体言接続   a wildcard primary field, and a
\* primary label POS::from does not know
Morphemes ==
    {<<"neko", "meishi", <<"kazu", "*", "*", "*", "*">>>>,
     <<"san", "meishi", <<"setsubi", "jinmei", "ippan", "*", "kihonkei">>>>,
     <<"na", "jodoushi", <<"*", "*", "*", "tokushu-da", "taigensetsuzoku">>>>,
     <<"hoshi", "*", <<"*", "*", "*", "*", "*">>>>,
     <<"xyz", "michigo", <<"kazu", "*", "*", "*", "*">>>>}

\* the k-th field of the schema: base form, reading, pronunciation follow
\* the inflection form
Field(label, subs, k) ==
    IF k = 1 THEN label
    ELSE IF k <= 6 THEN subs[k - 1]
    ELSE IF k = 7 THEN "kihon"
    ELSE IF k = 8 THEN "YOMI"
    ELSE IF k = 9 THEN "Hatsuon"
    ELSE "extra"

RECURSIVE Join(_)
\* the fields with a comma between each two
Join(fields) ==
    IF Len(fields) = 0 THEN <<>>
    ELSE IF Len(fields) = 1 THEN <<fields[1]>>
    ELSE <<fields[1], ",">> \o Join(Tail(fields))

RawPool ==
    {RawToken(m[1], Join([k \in 1..n |-> Field(m[2], m[3], k)])) :
        m \in Morphemes, n \in 0..MaxFields}

\* parse_into_words is not running
ParseIdle ==
    /\ tokens = <<>>
    /\ idx = 0
    /\ words = <<>>
    /\ previous = NoToken
    /\ result = "idle"
    /\ error = NoToken
    /\ eaten = {}

\* the state on entry of prepare_tokens(raws)
PrepareInit(raws) ==
    /\ raw_tokens = raws
    /\ ridx = 0
    /\ prepared = <<>>
    /\ presult = "running"
    /\ perror = NoToken

InitPrepare ==
    /\ ParseIdle
    /\ \E n \in 0..MaxRaw : \E raws \in [1..n -> RawPool] : PrepareInit(raws)

NextPrepare == PrepareStep \/ PrepareReturn

SpecPrepare == InitPrepare /\ [][NextPrepare]_vars

(***************************************************************************)
(* The pipeline of main: prepare_tokens(raw_tokens).unwrap(), then         *)
(* parse_into_words on the tokens it returned.  The raw morphemes carry    *)
(* the full schema, but for one that is a field short; their primary labels*)
(* are categories of the rule table, the wildcard, a label POS::from does  *)
(* not know, and a label POS::from knows as a sub-category.                *)
(***************************************************************************)
PipelineMorphemes ==
    {<<"neko", "meishi", <<"ippan", "*", "*", "*", "*">>>>,
     <<"benkyou", "meishi", <<"sahensetsuzoku", "*", "*", "*", "*">>>>,
     <<"suru", "doushi", <<"jiritsu", "*", "*", "sahen-suru", "kihonkei">>>>,
     <<"ta", "jodoushi", <<"*", "*", "*", "tokushu-ta", "kihonkei">>>>,
     <<"hoshi", "*", <<"*", "*", "*", "*", "*">>>>,
     <<"xyz", "michigo", <<"*", "*", "*", "*", "*">>>>,
     <<"xsuru", "michigo", <<"*", "*", "*", "sahen-suru", "kihonkei">>>>,
     <<"ksuru", "kazu", <<"*", "*", "*", "sahen-suru", "kihonkei">>>>}

PipelineRawPool ==
    {RawToken(m[1], Join([k \in 1..MaxFields |-> Field(m[2], m[3], k)])) :
        m \in PipelineMorphemes}
    \cup {RawToken("neko", Join([k \in 1..5 |-> Field("meishi",
                <<"ippan", "*", "*", "*", "*">>, k)]))}

\* main: the Ok value of prepare_tokens is handed to parse_into_words; an
\* Err or a panic ends main at the unwrap
Handover ==
    /\ presult = "ok"
    /\ result = "idle"
    /\ tokens' = prepared
    /\ result' = "running"
    /\ UNCHANGED <<idx, words, previous, error, eaten, prepVars>>

InitPipeline ==
    /\ ParseIdle
    /\ \E n \in 0..MaxLen : \E raws \in [1..n -> PipelineRawPool] : PrepareInit(raws)

NextPipeline ==
    PrepareStep \/ PrepareReturn \/ Handover \/ ParseStep \/ ParseReturn

SpecPipeline == InitPipeline /\ [][NextPipeline]_vars

(***************************************************************************)
(* Properties of parse_into_words                                          *)
(***************************************************************************)
RECURSIVE ConcatField(_, _)
\* the in-order concatenation of field f over a sequence of records
ConcatField(records, f) ==
    IF Len(records) = 0 THEN ""
    ELSE records[1][f] \o ConcatField(Tail(records), f)

RECURSIVE ConcatTokens(_)
\* the tokens lists of the words, one after the other
ConcatTokens(ws) ==
    IF Len(ws) = 0 THEN <<>>
    ELSE ws[1].tokens \o ConcatTokens(Tail(ws))

\* the number of input tokens the words of the current state were built
\* from: a failing iteration takes its token and leaves the words alone
Absorbed == IF result = "err" THEN idx - 1 ELSE idx

\* C1: round-trip surface integrity.  When parse_into_words succeeds, the
\* concatenation of Word.word over the output words equals the
\* concatenation of literal over the input tokens.
C1_RoundTripSurface ==
    result = "ok" =>
        ConcatField(words, "word") = ConcatField(tokens, "literal")

\* a successful run of three tokens in which a lookahead was consumed
C1_Witness ==
    /\ result = "ok"
    /\ Len(tokens) = 3
    /\ eaten # {}
    /\ Len(words) = 2

\* C2: total coverage.  When parse_into_words succeeds, the tokens lists of
\* the output words, concatenated in order, are exactly the input sequence:
\* no token dropped, none duplicated, order preserved.
C2_TotalCoverage ==
    result = "ok" => ConcatTokens(words) = tokens

\* a successful run in which a token was attached to the previous word
C2_Witness ==
    /\ result = "ok"
    /\ eaten = {}
    /\ Len(tokens) = 3
    /\ \E i \in 1..Len(words) : Len(words[i].tokens) >= 2

\* C3: in every state of the aggregator each word has a non-empty tokens
\* list, the lists are consecutive runs of the input in input order, and
\* word, reading and transcription are the in-order concatenation of the
\* tokens' literal, reading and hatsuon.
C3_WordInvariant ==
    /\ ConcatTokens(words) = SubSeq(tokens, 1, Absorbed)
    /\ \A i \in 1..Len(words) :
        LET w == words[i] IN
        /\ Len(w.tokens) >= 1
        /\ w.word = ConcatField(w.tokens, "literal")
        /\ w.extra.reading = ConcatField(w.tokens, "reading")
        /\ w.extra.transcription = ConcatField(w.tokens, "hatsuon")

\* mid-run, a word of three tokens: one consumed as lookahead, one attached
C3_Witness ==
    /\ result = "running"
    /\ eaten # {}
    /\ \E i \in 1..Len(words) : Len(words[i].tokens) = 3

\* a Noun whose rule looks at the following token and can ask for it
LookaheadNoun(t) ==
    /\ t.pos = "Meishi"
    /\ \/ t.pos2 \in {"Fukushikanou", "Sahensetsuzoku",
                      "Keiyoudoushigokan", "Naikeiyoushigokan"}
       \/ /\ t.pos2 \in {"Hijiritsu", "Tokushu"}
          /\ t.pos3 \in {"Fukushikanou", "Jodoushigokan", "Keiyoudoushigokan"}

\* the last input token is a lookahead Noun and the main loop took it
EndsInLookaheadNoun ==
    /\ Len(tokens) > 0
    /\ idx = Len(tokens)
    /\ Len(tokens) \notin eaten
    /\ LookaheadNoun(tokens[Len(tokens)])

\* C9 as stated: a sequence whose last token is a Noun whose rule requires
\* consume_lookahead, with no following token, makes parse_into_words fail
\* with MissingLookaheadToken.
C9_Original ==
    (result \in {"ok", "err"} /\ EndsInLookaheadNoun)
        => /\ result = "err"
           /\ error[1].kind = "MissingLookaheadToken"

\* C9 amended: the rules ask for the lookahead only after a successful peek.
\* MissingLookaheadToken is never returned, and a lookahead Noun that is the
\* last token, with no following token, is emitted as an ordinary Noun word
\* of its own in a successful run.
C9_NoMissingLookahead ==
    /\ result = "err" => error[1].kind # "MissingLookaheadToken"
    /\ EndsInLookaheadNoun =>
        /\ result \in {"running", "ok"}
        /\ LET w == words[Len(words)]
               t == tokens[Len(tokens)]
           IN /\ w.tokens = <<t>>
              /\ w.word = t.literal
              /\ w.part_of_speech = "Noun"
              /\ w.extra.grammar = None

\* a successful run of several tokens that ends in a lookahead Noun
C9_Witness ==
    /\ result = "ok"
    /\ Len(tokens) >= 2
    /\ EndsInLookaheadNoun

\* the primary tags that have an arm in the match on token.pos
RuleTablePrimary ==
    {"Meishi", "Settoushi", "JoDoushi", "Doushi", "Keiyoushi", "Joshi",
     "Rentaishi", "Setsuzokushi", "Fukushi", "Kigou", "Firaa", "Kandoushi",
     "Sonota"}

\* the input positions the main loop has taken
MainLoopTaken == {i \in 1..idx : i \notin eaten}

\* the run has failed at input position i with UnresolvedPartOfSpeech
FailedUnresolvedAt(i) ==
    /\ result = "err"
    /\ i = idx
    /\ error[1].kind = "UnresolvedPartOfSpeech"

\* no arm of the match on pos2 assigns a part of speech or attaches
NoSubRule(i) ==
    LET sub == MeishiSubRule(tokens[i], Peek(tokens, i - 1), <<>>) IN
    sub.pos = None /\ ~sub.attach_to_previous

\* C10 as stated: every token for which no rule assigns a coarse POS (its
\* primary POS matches no row, or it matches a primary category but no
\* sub-rule of it applies) makes parse_into_words fail with
\* UnresolvedPartOfSpeech.
C10_Original ==
    \A i \in 1..idx :
        (\/ tokens[i].pos \notin RuleTablePrimary
         \/ (tokens[i].pos = "Meishi" /\ NoSubRule(i)))
            => FailedUnresolvedAt(i)

\* C10 amended: a token the main loop takes makes parse_into_words fail with
\* UnresolvedPartOfSpeech, and no word is emitted for it, exactly when its
\* primary POS has no arm in the rule table; a Noun that matches no sub-rule
\* does not fail: it starts a word of part of speech Noun.
C10_UnresolvedPrimary ==
    /\ \A i \in MainLoopTaken :
        (tokens[i].pos \notin RuleTablePrimary) <=> FailedUnresolvedAt(i)
    /\ result = "err" => Len(ConcatTokens(words)) = idx - 1
    /\ \A k \in 1..Len(words) :
        LET t == words[k].tokens[1] IN
        (t.pos = "Meishi" /\ t.pos2 = "Unknown") =>
            words[k].part_of_speech = "Noun"

\* a default Noun word was emitted and the next token, of a primary tag
\* without an arm, failed the run
C10_Witness ==
    /\ result = "err"
    /\ idx = 2
    /\ tokens[1].pos = "Meishi"
    /\ tokens[1].pos2 = "Unknown"
    /\ tokens[2].pos = "Kazu"
    /\ Len(words) = 1

(***************************************************************************)
(* Properties of prepare_tokens.  The fields of a feature string are       *)
(* read here left to right from the commas, without Split.                 *)
(***************************************************************************)
RECURSIVE Scan(_, _, _)
\* the fields read left to right from run j on: a comma opens a new field,
\* any other run extends the last field of acc
Scan(feature, j, acc) ==
    IF j > Len(feature) THEN acc
    ELSE IF feature[j] = ","
    THEN Scan(feature, j + 1, Append(acc, ""))
    ELSE Scan(feature, j + 1, [acc EXCEPT ![Len(acc)] = @ \o feature[j]])

\* the comma-separated fields of a feature string
FieldsOf(feature) == Scan(feature, 1, <<"">>)

\* the raw tokens the closure has been called on
Taken == 1..ridx

\* C4: primary-POS rejection.  prepare_tokens fails with
\* UnrecognizedPrimaryPos for every raw morpheme (of at least 6 fields)
\* whose first field is the wildcard or an unrecognized label, and no token
\* with primary tag Unset or Unknown is produced.
C4_PrimaryRejection ==
    /\ \A i \in Taken :
        LET fs == FieldsOf(raw_tokens[i].feature) IN
        (Len(fs) >= 6 /\ POSFrom(fs[1]) \in {"Unset", "Unknown"})
            => /\ presult = "err"
               /\ perror[1].kind = "UnrecognizedPrimaryPos"
    /\ \A i \in 1..Len(prepared) : prepared[i].pos \notin {"Unset", "Unknown"}

\* C5: malformed feature.  Whenever the feature string of a raw morpheme
\* splits into fewer than 6 fields, prepare_tokens returns the error
\* MalformedFeature: it does not panic and produces no tokens.
C5_MalformedFeature ==
    \A i \in Taken :
        Len(FieldsOf(raw_tokens[i].feature)) < 6
            => /\ presult = "err"
               /\ perror[1].kind = "MalformedFeature"

\* C6: field positions.  For a feature string of nine fields the token's
\* lemma is the 7th field, its reading the 8th and its hatsuon the 9th.
C6_FieldPositions ==
    \A i \in 1..Len(prepared) :
        LET fs == FieldsOf(raw_tokens[i].feature) IN
        Len(fs) = 9
            => /\ prepared[i].lemma = fs[7]
               /\ prepared[i].reading = fs[8]
               /\ prepared[i].hatsuon = fs[9]

\* C7: on success prepare_tokens is an order-preserving one-to-one mapping:
\* as many tokens as raw morphemes, the i-th literal is the i-th surface and
\* the six tags are the POS mapping of fields 1 to 6 in order.
C7_OneToOne ==
    presult = "ok" =>
        /\ Len(prepared) = Len(raw_tokens)
        /\ \A i \in 1..Len(raw_tokens) :
            LET fs == FieldsOf(raw_tokens[i].feature)
                t == prepared[i]
            IN /\ t.literal = raw_tokens[i].surface
               /\ t.pos = POSFrom(fs[1])
               /\ t.pos2 = POSFrom(fs[2])
               /\ t.pos3 = POSFrom(fs[3])
               /\ t.pos4 = POSFrom(fs[4])
               /\ t.inflection_type = POSFrom(fs[5])
               /\ t.inflection_form = POSFrom(fs[6])

\* a successful run on two morphemes of different surface whose inflection
\* fields differ
C7_Witness ==
    /\ presult = "ok"
    /\ Len(prepared) = 2
    /\ prepared[1].literal # prepared[2].literal
    /\ prepared[2].inflection_type = "TokushuDa"
    /\ prepared[2].inflection_form = "Taigensetsuzoku"

\* C8: a raw morpheme with at least 6 fields and a recognized primary label
\* is made into a token whatever its sub-category and inflection fields
\* hold (they pass through, also as Unset or Unknown), each of lemma,
\* reading and transcription whose field (7th, 8th, 9th) is absent is the
\* empty text, and prepare_tokens succeeds when every morpheme is such.
C8_Permissive ==
    LET Acceptable(i) ==
            LET fs == FieldsOf(raw_tokens[i].feature) IN
            /\ Len(fs) >= 6
            /\ POSFrom(fs[1]) \notin {"Unset", "Unknown"}
    IN /\ \A i \in Taken :
            LET fs == FieldsOf(raw_tokens[i].feature) IN
            Acceptable(i)
                => /\ i <= Len(prepared)
                   /\ prepared[i].pos2 = POSFrom(fs[2])
                   /\ prepared[i].pos3 = POSFrom(fs[3])
                   /\ prepared[i].pos4 = POSFrom(fs[4])
                   /\ prepared[i].inflection_type = POSFrom(fs[5])
                   /\ prepared[i].inflection_form = POSFrom(fs[6])
                   /\ (Len(fs) < 7 => prepared[i].lemma = "")
                   /\ (Len(fs) < 8 => prepared[i].reading = "")
                   /\ (Len(fs) < 9 => prepared[i].hatsuon = "")
       /\ (\A i \in 1..Len(raw_tokens) : Acceptable(i))
            => presult \in {"running", "ok"}

\* a token was made from exactly six fields, one of them an unrecognized
\* sub-category label, and another from six fields holding wildcards
C8_Witness ==
    /\ Len(prepared) = 2
    /\ Len(FieldsOf(raw_tokens[1].feature)) = 6
    /\ prepared[1].pos4 = "Unknown"
    /\ prepared[1].lemma = ""
    /\ Len(FieldsOf(raw_tokens[2].feature)) = 6
    /\ prepared[2].pos4 = "Unset"

\* the number of input tokens that went into the words before word k
WordStart(k) == Len(ConcatTokens(SubSeq(words, 1, k - 1)))

RECURSIVE Selections(_)
\* the subsequences of a sequence
Selections(records) ==
    IF Len(records) = 0 THEN {<<>>}
    ELSE LET rest == Selections(Tail(records)) IN
         rest \cup {<<Head(records)>> \o sel : sel \in rest}

\* the strings that concatenate field f over some of the records, in order
Pieces(records, f) == {ConcatField(sel, f) : sel \in Selections(records)}

\* token j of word k and the token after it are input tokens i and i + 1,
\* and the word's surface and lemma hold their literals and their lemmas
\* next to each other, in order
ChainedAt(i, k, j) ==
    LET w == words[k]
        before == SubSeq(w.tokens, 1, j - 1)
        after == SubSeq(w.tokens, j + 2, Len(w.tokens))
    IN /\ WordStart(k) + j = i
       /\ w.tokens[j] = tokens[i]
       /\ w.tokens[j + 1] = tokens[i + 1]
       /\ w.word = ConcatField(before, "literal") \o tokens[i].literal
                        \o tokens[i + 1].literal \o ConcatField(after, "literal")
       /\ \E p \in Pieces(before, "lemma") : \E q \in Pieces(after, "lemma") :
            w.lemma = p \o tokens[i].lemma \o tokens[i + 1].lemma \o q

\* input tokens i and i + 1 are constituents of one word, chained
Chained(i) ==
    \E k \in 1..Len(words) : \E j \in 1..(Len(words[k].tokens) - 1) :
        ChainedAt(i, k, j)

\* a Noun of the numeral sub-category
Numeral(t) == t.pos = "Meishi" /\ t.pos2 = "Kazu"

\* C11 as stated: whenever two numeral Noun tokens are adjacent in the input
\* of a successful run, both are constituents of the same Word, whose surface
\* and lemma contain their literals and their lemmas concatenated in order.
C11_Original ==
    result = "ok" =>
        \A i \in 1..(Len(tokens) - 1) :
            (Numeral(tokens[i]) /\ Numeral(tokens[i + 1])) => Chained(i)

\* C11 amended: two adjacent numeral Noun tokens the words were built from
\* are constituents of the same Word, their literals and lemmas concatenated
\* in order in its surface and lemma, when the main loop took the first of
\* them; when the first was consumed as the lookahead of the token before
\* it, the second starts a word of its own, a Number word.
C11_NumeralChaining ==
    \A i \in 1..(Absorbed - 1) :
        (Numeral(tokens[i]) /\ Numeral(tokens[i + 1])) =>
            IF i \in eaten
            THEN \E k \in 1..Len(words) :
                    /\ WordStart(k) + 1 = i + 1
                    /\ words[k].tokens[1] = tokens[i + 1]
                    /\ i + 1 = Absorbed => words[k].part_of_speech = "Number"
            ELSE Chained(i)

\* a successful run chained two different numerals behind another token
C11_Witness ==
    /\ result = "ok"
    /\ Len(tokens) = 3
    /\ Numeral(tokens[2]) /\ Numeral(tokens[3])
    /\ tokens[2] # tokens[3]
    /\ 2 \notin eaten
    /\ Chained(2)

\* an auxiliary verb of inflection type Past, Negative, Desiderative or Polite
FusingAux(t) ==
    /\ t.pos = "JoDoushi"
    /\ t.inflection_type \in {"TokushuTa", "TokushuNai", "TokushuTai",
                               "TokushuMasu"}

\* tokens j and j + 1 of word k are input tokens i and i + 1
InOneWord(i, k, j) ==
    /\ WordStart(k) + j = i
    /\ words[k].tokens[j] = tokens[i]
    /\ words[k].tokens[j + 1] = tokens[i + 1]

\* the reading of word k is the readings of its tokens up to token j, then
\* the reading of token j + 1, then the readings of the tokens behind it
ReadingAppended(k, j) ==
    LET w == words[k] IN
    w.extra.reading = ConcatField(SubSeq(w.tokens, 1, j), "reading")
                        \o w.tokens[j + 1].reading
                        \o ConcatField(SubSeq(w.tokens, j + 2, Len(w.tokens)),
                                       "reading")

\* C12 as stated: whenever a Verb token is immediately followed by an
\* auxiliary verb of inflection type Past, Negative, Desiderative or Polite,
\* both tokens are in one Word, that Word's part_of_speech is Verb, and the
\* auxiliary's reading is appended to the Word's reading.
C12_Original ==
    result = "ok" =>
        \A i \in 1..(Len(tokens) - 1) :
            (tokens[i].pos = "Doushi" /\ FusingAux(tokens[i + 1])) =>
                \E k \in 1..Len(words) :
                    \E j \in 1..(Len(words[k].tokens) - 1) :
                        /\ InOneWord(i, k, j)
                        /\ words[k].part_of_speech = "Verb"
                        /\ ReadingAppended(k, j)

\* C12 amended: a Verb token that was consumed as lookahead, or whose second
\* tag is not the binding particle, and the auxiliary verb of inflection
\* type Past, Negative, Desiderative or Polite right behind it are in one
\* Word, and the auxiliary's reading is appended to the Word's reading.
\* When the auxiliary has just been attached, the Word's part_of_speech is
\* Verb if the Verb token started the Word or a stem Noun consumed it as a
\* token of inflection type SahenSuru; a Verb token that itself attached to
\* an existing Word leaves that Word's part_of_speech as it was.
C12_AuxiliaryFusion ==
    \A i \in 1..(Absorbed - 1) :
        (/\ tokens[i].pos = "Doushi"
         /\ FusingAux(tokens[i + 1])
         /\ (i \in eaten \/ tokens[i].pos2 # "Kakarijoshi")) =>
            \E k \in 1..Len(words) :
                \E j \in 1..(Len(words[k].tokens) - 1) :
                    /\ InOneWord(i, k, j)
                    /\ ReadingAppended(k, j)
                    /\ (/\ i + 1 = Absorbed
                        /\ \/ j = 1
                           \/ /\ i \in eaten
                              /\ tokens[i].inflection_type = "SahenSuru"
                              /\ tokens[i - 1].pos2 \in
                                    {"Fukushikanou", "Sahensetsuzoku",
                                     "Keiyoudoushigokan", "Naikeiyoushigokan"})
                        => words[k].part_of_speech = "Verb"

\* a successful run fused a Noun, a suffix Verb and a Past auxiliary into one
\* Word that stays a Noun
C12_Witness ==
    /\ result = "ok"
    /\ Len(tokens) = 3
    /\ tokens[2].pos = "Doushi"
    /\ FusingAux(tokens[3])
    /\ Len(words) = 1
    /\ InOneWord(2, 1, 2)
    /\ ReadingAppended(1, 2)
    /\ words[1].part_of_speech = "Noun"

\* the main loop is about to take tokens[idx + 1]
Processing == result = "running" /\ idx < Len(tokens)

\* a Noun suffix that is not a person-name suffix
NounSuffix(t) == t.pos = "Meishi" /\ t.pos2 = "Setsubi" /\ t.pos3 # "Jinmei"

\* the nominalizing suffix さ
SpecialSa(t) == t.pos3 = "Tokushu" /\ t.lemma = SA

\* this step folds token t into the last word: surface, reading and
\* transcription grow by t's, and the lemma by t's lemma iff extend_lemma
Folded(t, extend_lemma) ==
    LET last == words[Len(words)]
        after == words'[Len(words)]
    IN /\ Len(words') = Len(words)
       /\ after.word = last.word \o t.literal
       /\ after.extra.reading = last.extra.reading \o t.reading
       /\ after.extra.transcription = last.extra.transcription \o t.hatsuon
       /\ after.tokens = Append(last.tokens, t)
       /\ after.lemma = IF extend_lemma THEN last.lemma \o t.lemma
                        ELSE last.lemma

\* C13 as stated: every Noun suffix token whose sub3 is not PersonName, when
\* it attaches to a previous Word, extends that Word's lemma with its lemma,
\* and always extends the Word's surface, reading and transcription.
C13_Original ==
    [][(Processing /\ Len(words) > 0 /\ NounSuffix(tokens[idx + 1]))
            => Folded(tokens[idx + 1], TRUE)]_vars

\* C13 amended: every Noun suffix token whose sub3 is not PersonName that the
\* main loop takes while a Word exists attaches to the last Word and extends
\* its surface, reading and transcription; it extends the Word's lemma with
\* its lemma unless it is the suffix with sub3 = Special and lemma さ, which
\* leaves the lemma as it was.
C13_SuffixLemma ==
    [][(Processing /\ Len(words) > 0 /\ NounSuffix(tokens[idx + 1]))
            => Folded(tokens[idx + 1], ~SpecialSa(tokens[idx + 1]))]_vars

\* a successful run attached a lemma-extending suffix and then the suffix さ
\* to a Noun
C13_Witness ==
    /\ result = "ok"
    /\ Len(tokens) = 3
    /\ NounSuffix(tokens[2]) /\ ~SpecialSa(tokens[2])
    /\ NounSuffix(tokens[3]) /\ SpecialSa(tokens[3])
    /\ Len(words) = 1
    /\ words[1].tokens = tokens
    /\ words[1].lemma = tokens[1].lemma \o tokens[2].lemma

\* C14: every error returned by prepare_tokens or by parse_into_words
\* carries the surface literal of the offending token: a run of
\* prepare_tokens that stops at a raw morpheme returns an error that holds
\* that morpheme's surface, for a malformed feature as for an unrecognized
\* primary tag, and a run of parse_into_words that stops at a token returns
\* an error that holds that token's literal.
C14_ErrorsCarryLiteral ==
    /\ presult \in {"err", "panic"} =>
            /\ presult = "err"
            /\ Len(perror) = 1
            /\ perror[1].literal = Some(raw_tokens[ridx].surface)
    /\ result = "err" =>
            /\ Len(error) = 1
            /\ error[1].literal = Some(tokens[idx].literal)

\* a token whose rule sets also_attach_to_lemma when it attaches: a numeral
\* (it attaches only by chaining) or a Noun suffix that is neither a
\* person-name suffix nor the suffix さ
LemmaExtending(t) ==
    /\ t.pos = "Meishi"
    /\ \/ t.pos2 = "Kazu"
       \/ /\ t.pos2 = "Setsubi"
          /\ t.pos3 # "Jinmei"
          /\ ~(t.pos3 = "Tokushu" /\ t.lemma = SA)

RECURSIVE LemmaFrom(_, _, _)
\* the lemmas of the tokens from position j on of a word whose tokens follow
\* `start` input tokens: of those attached under lemma extension, in order
LemmaFrom(toks, j, start) ==
    IF j > Len(toks) THEN ""
    ELSE (IF (start + j) \notin eaten /\ LemmaExtending(toks[j])
          THEN toks[j].lemma ELSE "") \o LemmaFrom(toks, j + 1, start)

\* C15: for every Word in every reachable state, lemma is the lemma of its
\* first constituent token followed, in order, by the lemmas of exactly those
\* later constituent tokens that were added under a rule marking lemma
\* extension; tokens attached without lemma extension and tokens consumed as
\* lookahead contribute nothing.
C15_LemmaInvariant ==
    \A k \in 1..Len(words) :
        words[k].lemma = words[k].tokens[1].lemma
                            \o LemmaFrom(words[k].tokens, 2, WordStart(k))

\* a Word of a consumed lookahead token and a lemma-extending suffix behind
\* it: its lemma is the first token's and the suffix's
C15_Witness ==
    /\ result = "ok"
    /\ Len(tokens) = 3
    /\ eaten = {2}
    /\ LemmaExtending(tokens[3])
    /\ Len(words) = 1
    /\ words[1].tokens = tokens
    /\ words[1].lemma = tokens[1].lemma \o tokens[3].lemma
    /\ tokens[2].lemma # ""

\* C16: when the auxiliary-verb rule consults the previous token while the
\* main loop processes input token i (i > 0, the token at position idx + 1),
\* the previous token is input token i - 1, the last token consumed before
\* it, also when that token was folded into a Word by lookahead consumption;
\* it is absent only for i = 0.
C16_PreviousToken ==
    (Processing /\ tokens[idx + 1].pos = "JoDoushi") =>
        IF idx = 0 THEN previous = NoToken
        ELSE previous = Some(tokens[idx])

\* the rule of the token the main loop is about to take asks for the
\* following token
ConsumesLookahead ==
    /\ Processing
    /\ Rule(tokens[idx + 1], Peek(tokens, idx), previous, words).eat_next

\* this step starts a Word of exactly tokens[idx + 1] and tokens[idx + 2],
\* behind the words there were, and moves the cursor behind both
StartsPair ==
    /\ idx + 2 <= Len(tokens)
    /\ result' = "running"
    /\ idx' = idx + 2
    /\ Len(words') = Len(words) + 1
    /\ SubSeq(words', 1, Len(words)) = words
    /\ LET w == words'[Len(words')] IN
        /\ w.tokens = <<tokens[idx + 1], tokens[idx + 2]>>
        /\ w.word = tokens[idx + 1].literal \o tokens[idx + 2].literal

\* the token this step classifies, and puts at the end of the last word or
\* at the head of a new one, is one no earlier step consumed as lookahead
TakesFreshToken ==
    /\ (idx + 1) \notin eaten
    /\ words' # words =>
        LET w == words'[Len(words')] IN
        \/ w.tokens[Len(w.tokens)] = tokens[idx + 1]
        \/ w.tokens = <<tokens[idx + 1], tokens[idx + 2]>>

\* C17: lookahead consumption.  When a rule consumes the lookahead, the newly
\* started Word consists of exactly the current token followed by the next
\* token, and the following loop iteration processes the token after the
\* consumed one: the consumed token is never classified by the rule grammar
\* and never starts or attaches to a Word on its own.
C17_LookaheadConsumption ==
    [][/\ ConsumesLookahead => StartsPair
       /\ Processing => TakesFreshToken]_vars

\* a stem Noun consumed a token of inflection type SahenSuru into a Verb
\* Word, and the token behind the consumed one started the next Word
C17_Witness ==
    /\ result = "ok"
    /\ Len(tokens) = 3
    /\ tokens[1].pos2 = "Sahensetsuzoku"
    /\ tokens[2].inflection_type = "SahenSuru"
    /\ eaten = {2}
    /\ Len(words) = 2
    /\ words[1].tokens = <<tokens[1], tokens[2]>>
    /\ words[1].part_of_speech = "Verb"
    /\ words[2].tokens = <<tokens[3]>>

\* the flags of the first input token: no previous token, no words yet
FirstRule == Rule(tokens[1], Peek(tokens, 0), NoToken, <<>>)

\* C18: a token whose rule sets attach_to_previous while no Word has been
\* emitted yet does not fail and is not dropped: it starts a new Word with
\* its own computed coarse POS; hence in every successful run on a non-empty
\* input the first Word begins with input token 0.
C18_AttachWithoutWord ==
    /\ (idx = 1 /\ FirstRule.attach_to_previous) =>
            /\ result \in {"running", "ok"}
            /\ Len(words) = 1
            /\ words[1].tokens = <<tokens[1]>>
            /\ words[1].word = tokens[1].literal
            /\ words[1].part_of_speech = FirstRule.pos
    /\ (result = "ok" /\ Len(tokens) > 0) =>
            /\ Len(words) > 0
            /\ words[1].tokens[1] = tokens[1]

\* a successful run whose first token is an auxiliary verb that asks to be
\* attached: it started a Postposition Word, and the next token joined it
C18_Witness ==
    /\ result = "ok"
    /\ Len(tokens) = 2
    /\ tokens[1].pos = "JoDoushi"
    /\ FirstRule.attach_to_previous
    /\ Len(words) = 1
    /\ words[1].tokens = tokens
    /\ words[1].part_of_speech = "Postposition"

\* this step attaches the token the main loop takes to the last word
AttachStep ==
    /\ Processing
    /\ Len(words') = Len(words)
    /\ words' # words

\* C19: frame of attachment.  Attaching a token changes only the last Word:
\* all earlier Words are unchanged, and the last Word's part_of_speech and
\* grammar are unchanged, except that part_of_speech is overwritten, to Noun,
\* by the Noun-suffix rule with sub3 = Special and lemma さ and by no other
\* rule: an attached auxiliary, verb or particle never changes it.
C19_AttachFrame ==
    [][AttachStep =>
        LET t == tokens[idx + 1]
            last == words[Len(words)]
            after == words'[Len(words)]
        IN /\ SubSeq(words', 1, Len(words) - 1)
                = SubSeq(words, 1, Len(words) - 1)
           /\ after.extra.grammar = last.extra.grammar
           /\ after.part_of_speech =
                IF /\ t.pos = "Meishi" /\ t.pos2 = "Setsubi"
                   /\ t.pos3 = "Tokushu" /\ t.lemma = SA
                THEN "Noun" ELSE last.part_of_speech]_vars

\* a Nominal Verb Word took an auxiliary and kept its part of speech, then
\* took the suffix さ and became a Noun, still Nominal
C19_Witness ==
    /\ result = "ok"
    /\ Len(tokens) = 3
    /\ tokens[1].pos2 = "Doushihijiritsuteki"
    /\ tokens[2].pos = "JoDoushi"
    /\ SpecialSa(tokens[3])
    /\ Len(words) = 1
    /\ words[1].tokens = tokens
    /\ words[1].part_of_speech = "Noun"
    /\ words[1].extra.grammar = "Nominal"

\* the clause of the auxiliary-verb rule that applies to token t behind the
\* token before it in the input (none for the first token), in priority order
AuxClause(t, before) ==
    IF /\ t.inflection_type \in {"TokushuTa", "TokushuNai", "TokushuTai",
                                  "TokushuMasu", "TokushuNu"}
       /\ (Len(before) = 0 \/ before[1].pos2 # "Kakarijoshi")
    THEN 1
    ELSE IF t.inflection_type = "Fuhenkagata" /\ t.lemma = NN
    THEN 2
    ELSE IF /\ t.inflection_type \in {"TokushuDa", "TokushuDesu"}
            /\ t.literal # NA
    THEN 3
    ELSE 4

\* this step starts a Word of part of speech p that holds token t alone
StartsWord(t, p) ==
    /\ Len(words') = Len(words) + 1
    /\ words'[Len(words')].tokens = <<t>>
    /\ words'[Len(words')].part_of_speech = p

\* this step attaches token t to the last Word and leaves its part of speech
Attaches(t) ==
    /\ Len(words') = Len(words)
    /\ words'[Len(words)].tokens = Append(words[Len(words)].tokens, t)
    /\ words'[Len(words)].part_of_speech = words[Len(words)].part_of_speech

\* C20: auxiliary-verb rule priority.  An auxiliary verb (1) attaches to the
\* previous Word as Postposition when its inflection type is Past, Negative,
\* Desiderative, Polite or Negative2 and there is no previous token or the
\* previous token's sub2 is not BindingParticle; (2) else attaches when its
\* inflection type is Invariable and its lemma is ん; (3) else starts a new
\* Verb Word when its inflection type is CopulaDa or CopulaDesu and its
\* literal is not な; (4) else starts a new Postposition Word.  The previous
\* token is the input token before it; a token that asks to attach while no
\* Word exists starts a Postposition Word.
C20_AuxiliaryPriority ==
    [][(Processing /\ tokens[idx + 1].pos = "JoDoushi") =>
        LET t == tokens[idx + 1]
            before == IF idx = 0 THEN NoToken ELSE Some(tokens[idx])
            clause == AuxClause(t, before)
        IN /\ result' = "running"
           /\ idx' = idx + 1
           /\ CASE clause \in {1, 2} ->
                    IF Len(words) > 0 THEN Attaches(t)
                    ELSE StartsWord(t, "Postposition")
                [] clause = 3 -> StartsWord(t, "Verb")
                [] OTHER -> StartsWord(t, "Postposition")]_vars

\* a Noun of one of the four stem sub-categories
StemNoun(t) ==
    /\ t.pos = "Meishi"
    /\ t.pos2 \in {"Fukushikanou", "Sahensetsuzoku", "Keiyoudoushigokan",
                   "Naikeiyoushigokan"}

\* input token i is constituent j of word k
ConstituentAt(i, k, j) ==
    /\ j \in 1..Len(words[k].tokens)
    /\ WordStart(k) + j = i
    /\ words[k].tokens[j] = tokens[i]

\* input token i is a constituent of some word
InSomeWord(i) ==
    \E k \in 1..Len(words) : \E j \in 1..Len(words[k].tokens) :
        ConstituentAt(i, k, j)

\* C21 as stated: for a stem Noun whose following token has inflection
\* type 特殊・ダ the started Word is classified Adjective, the following
\* token is consumed into it if and only if its inflection form is 体言接続,
\* and a following token that is not consumed is processed in the next
\* iteration and is assigned to a Word.
C21_Original ==
    \A i \in MainLoopTaken :
        (/\ i < Len(tokens)
         /\ StemNoun(tokens[i])
         /\ tokens[i + 1].inflection_type = "TokushuDa")
        => /\ \E k \in 1..Len(words) :
                /\ ConstituentAt(i, k, 1)
                /\ (i + 1 \in eaten) => ConstituentAt(i + 1, k, 2)
                /\ (Absorbed \in {i, i + 1} /\ k = Len(words)
                        /\ Len(words[k].tokens) = (IF i + 1 \in eaten THEN 2 ELSE 1))
                   => words[k].part_of_speech = "Adjective"
           /\ (i + 1 \in eaten)
                <=> (tokens[i + 1].inflection_form = "Taigensetsuzoku")
           /\ (i + 1 \notin eaten /\ idx > i)
                => /\ i + 1 \in MainLoopTaken
                   /\ InSomeWord(i + 1)

\* C21, amended: a stem Noun (副詞可能, サ変接続, 形容動詞語幹, ナイ形容詞語幹)
\* that the main loop takes while the following token has inflection type
\* 特殊・ダ starts a Word classified Adjective.  The following token is consumed
\* into that Word if and only if its inflection form is 体言接続.  When it
\* is not consumed it is the token of the next iteration, handled by its
\* own rule: once that iteration is over with the run still going, the
\* token is a constituent of a Word, and the only way the iteration fails
\* is UnresolvedPartOfSpeech for a primary tag without an arm.
C21_CopulaAdjective ==
    \A i \in MainLoopTaken :
        (/\ i < Len(tokens)
         /\ StemNoun(tokens[i])
         /\ tokens[i + 1].inflection_type = "TokushuDa")
        => /\ \E k \in 1..Len(words) :
                /\ ConstituentAt(i, k, 1)
                /\ (i + 1 \in eaten) => ConstituentAt(i + 1, k, 2)
                /\ (Absorbed \in {i, i + 1} /\ k = Len(words)
                        /\ Len(words[k].tokens) = (IF i + 1 \in eaten THEN 2 ELSE 1))
                   => words[k].part_of_speech = "Adjective"
           /\ (i + 1 \in eaten)
                <=> (tokens[i + 1].inflection_form = "Taigensetsuzoku")
           /\ (i + 1 \notin eaten /\ idx > i)
                => /\ i + 1 \in MainLoopTaken
                   /\ \/ InSomeWord(i + 1)
                      \/ /\ FailedUnresolvedAt(i + 1)
                         /\ tokens[i + 1].pos \notin RuleTablePrimary

\* 元気 だ: だ is left to its own rule and starts the second Word
C21_Witness ==
    /\ result = "ok"
    /\ Len(tokens) = 2
    /\ StemNoun(tokens[1])
    /\ tokens[2].inflection_type = "TokushuDa"
    /\ tokens[2].inflection_form # "Taigensetsuzoku"
    /\ eaten = {}
    /\ Len(words) = 2
    /\ words[1].part_of_speech = "Adjective"
    /\ words[1].tokens = <<tokens[1]>>
    /\ words[2].tokens = <<tokens[2]>>

\* the condition under which the verb arm sets attach_to_previous
VerbAttaches(t) ==
    \/ t.pos2 = "Setsubi"
    \/ (t.pos2 = "Hijiritsu" /\ t.inflection_form # "MeireiI")

\* input token i is a later constituent of a word started before it
AttachedToken(i) ==
    \E k \in 1..Len(words) : \E j \in 2..Len(words[k].tokens) :
        ConstituentAt(i, k, j)

\* input token i is the first constituent of the last word, and nothing
\* has been added to that word since; the word has the part of speech p
StartedWord(i, p) ==
    \E k \in 1..Len(words) :
        /\ ConstituentAt(i, k, 1)
        /\ (i = Absorbed) => (k = Len(words) /\ words[k].tokens = <<tokens[i]>>
                                /\ words[k].part_of_speech = p)

\* C22 as stated: a Verb token attaches to the previous Word when its sub2
\* is Suffix, or when its sub2 is Dependent and its inflection form is not
\* Imperative; in every other case it starts a new Verb Word.
C22_Original ==
    \A i \in 1..Absorbed :
        tokens[i].pos = "Doushi"
        => IF VerbAttaches(tokens[i])
           THEN AttachedToken(i)
           ELSE \E k \in 1..Len(words) :
                    ConstituentAt(i, k, 1) /\ words[k].part_of_speech = "Verb"

\* C22, amended: a Verb token the main loop takes is given the part of
\* speech Verb.  It is attached to the last Word when a Word exists and its
\* sub2 is Suffix, or its sub2 is Dependent and its inflection form is not
\* Imperative; in every other case it starts a new Word, of part of speech
\* Verb.  A Verb token consumed as lookahead starts no Word: it is the
\* second constituent of the Word of the token before it.
C22_VerbRule ==
    \A i \in 1..Absorbed :
        tokens[i].pos = "Doushi"
        => /\ (i \in MainLoopTaken)
                => /\ Rule(tokens[i], Peek(tokens, i), <<>>, <<>>).pos = "Verb"
                   /\ IF VerbAttaches(tokens[i]) /\ i > 1
                      THEN AttachedToken(i)
                      ELSE StartedWord(i, "Verb")
           /\ (i \in eaten)
                => \E k \in 1..Len(words) : ConstituentAt(i, k, 2)

\* ください (Dependent, Imperative) after 食べ starts a second Verb Word
C22_Witness ==
    /\ result = "ok"
    /\ Len(tokens) = 3
    /\ \A i \in 1..3 : tokens[i].pos = "Doushi"
    /\ tokens[2].pos2 = "Hijiritsu" /\ tokens[2].inflection_form # "MeireiI"
    /\ tokens[3].pos2 = "Hijiritsu" /\ tokens[3].inflection_form = "MeireiI"
    /\ Len(words) = 2
    /\ words[1].tokens = <<tokens[1], tokens[2]>>
    /\ words[2].tokens = <<tokens[3]>>
    /\ words[2].part_of_speech = "Verb"

\* the condition under which the particle arm sets attach_to_previous
ParticleAttaches(t) ==
    t.pos2 = "Setsuzokujoshi" /\ t.literal \in {TE, DE, BA}

\* input token i is the particle に behind a stem Noun that the main loop
\* took and that none of the three consuming branches applies to
NiAfterStemNoun(i) ==
    /\ i > 1
    /\ i - 1 \in MainLoopTaken
    /\ StemNoun(tokens[i - 1])
    /\ tokens[i].pos = "Joshi"
    /\ tokens[i].literal = NI
    /\ tokens[i].inflection_type \notin {"SahenSuru", "TokushuDa", "TokushuNai"}

\* C23 as stated: a Particle token attaches to the previous Word exactly
\* when its sub2 is ConjunctiveParticle and its literal is て, で or ば;
\* every other Particle token starts a new Postposition Word.
C23_Original ==
    \A i \in 1..Absorbed :
        tokens[i].pos = "Joshi"
        => IF ParticleAttaches(tokens[i])
           THEN AttachedToken(i)
           ELSE \E k \in 1..Len(words) :
                    /\ ConstituentAt(i, k, 1)
                    /\ words[k].part_of_speech = "Postposition"

\* C23, amended: a Particle token the main loop takes is attached to the
\* last Word exactly when a Word exists, its sub2 is ConjunctiveParticle
\* and its literal is て, で or ば; every other Particle token the main loop
\* takes starts a new Word, of part of speech Postposition.  The particle
\* に behind a stem Noun is one of these: the Noun's Word is an Adverb and
\* に starts the next Word.  A Particle token consumed as lookahead starts
\* no Word: it is the second constituent of the Word of the token before.
C23_ParticleRule ==
    \A i \in 1..Absorbed :
        tokens[i].pos = "Joshi"
        => /\ (i \in MainLoopTaken)
                => IF ParticleAttaches(tokens[i]) /\ i > 1
                   THEN AttachedToken(i)
                   ELSE StartedWord(i, "Postposition")
           /\ (i \in eaten)
                => \E k \in 1..Len(words) : ConstituentAt(i, k, 2)
           /\ NiAfterStemNoun(i)
                => /\ i \in MainLoopTaken
                   /\ \E k \in 2..Len(words) :
                        /\ ConstituentAt(i, k, 1)
                        /\ words[k - 1].tokens = <<tokens[i - 1]>>
                        /\ words[k - 1].part_of_speech = "Adverb"

\* 今日 に ながら: three Words, an Adverb and two Postpositions
C23_Witness ==
    /\ result = "ok"
    /\ Len(tokens) = 3
    /\ NiAfterStemNoun(2)
    /\ tokens[3].pos = "Joshi"
    /\ tokens[3].pos2 = "Setsuzokujoshi"
    /\ ~ParticleAttaches(tokens[3])
    /\ Len(words) = 3
    /\ words[1].part_of_speech = "Adverb"
    /\ words[2].tokens = <<tokens[2]>>
    /\ words[2].part_of_speech = "Postposition"
    /\ words[3].tokens = <<tokens[3]>>
    /\ words[3].part_of_speech = "Postposition"

\* a Noun of the sub-category 動詞非自立的
VerbalNoun(t) == t.pos = "Meishi" /\ t.pos2 = "Doushihijiritsuteki"

\* a Noun of the sub-category 非自立 or 特殊 whose third level is 助動詞語幹
AuxStemNoun(t) ==
    /\ t.pos = "Meishi"
    /\ t.pos2 \in {"Hijiritsu", "Tokushu"}
    /\ t.pos3 = "Jodoushigokan"

\* input token i has a following token, of inflection type 特殊・ダ
CopulaFollows(i) ==
    i < Len(tokens) /\ tokens[i + 1].inflection_type = "TokushuDa"

\* C24: in every state of a run, whatever has been attached to a Word since
\* it was started, the Word's grammar is Nominal exactly when its first
\* token is a Noun of sub-category 動詞非自立的, is Auxillary exactly when
\* its first token is a Noun of sub-category 非自立 or 特殊 with third level
\* 助動詞語幹 whose following input token has inflection type 特殊・ダ, and
\* is absent in every other case.
C24_GrammarTag ==
    \A k \in 1..Len(words) :
        LET i == WordStart(k) + 1
            g == words[k].extra.grammar
        IN /\ words[k].tokens[1] = tokens[i]
           /\ (g = "Nominal") <=> VerbalNoun(tokens[i])
           /\ (g = "Auxillary") <=> (AuxStemNoun(tokens[i]) /\ CopulaFollows(i))
           /\ g \in {"Nominal", "Auxillary", None}

\* そう な た: そう starts an Auxillary Word and consumes な; た is attached
\* to that Word afterwards and the grammar stays
C24_Witness ==
    /\ result = "ok"
    /\ Len(tokens) = 3
    /\ AuxStemNoun(tokens[1])
    /\ CopulaFollows(1)
    /\ eaten = {2}
    /\ Len(words) = 1
    /\ words[1].tokens = <<tokens[1], tokens[2], tokens[3]>>
    /\ words[1].extra.grammar = "Auxillary"

\* parse_into_words has returned, Ok or Err
Finished == result \in {"ok", "err"}

\* the step is one iteration of the loop
Iteration == result = "running" /\ idx < Len(tokens)

\* the step consumes the lookahead token
LookaheadConsumed == eaten' # eaten

\* C25: on every input parse_into_words eventually returns, Ok or Err.
\* Every iteration moves the cursor forward by exactly one token, or by
\* exactly two when it consumes the lookahead, and never past the end of
\* the input; a step that is not an iteration leaves the cursor alone.  So
\* at most n iterations run for n tokens, and there are never more than n
\* words.
C25_Termination ==
    /\ <>Finished
    /\ [][/\ Iteration
             => /\ idx' = idx + (IF LookaheadConsumed THEN 2 ELSE 1)
                /\ idx' <= Len(tokens)
          /\ ~Iteration => idx' = idx]_vars
    /\ [](/\ Cardinality(MainLoopTaken) <= Len(tokens)
          /\ Len(words) <= Cardinality(MainLoopTaken))

\* 勉強 する た: two iterations for three tokens, one Word
C25_Witness ==
    /\ result = "ok"
    /\ Len(tokens) = 3
    /\ idx = 3
    /\ eaten = {2}
    /\ Cardinality(MainLoopTaken) = 2
    /\ Len(words) = 1

\* the constituent tokens of the words, in order
Constituents == ConcatTokens(words)

\* C26: in the pipeline of main, prepare_tokens followed by
\* parse_into_words, every constituent token of every Word of a successful
\* output has a primary tag that is a category of the rule table: none is
\* Unset, Unknown or a tag of another level, the tokens consumed as
\* lookahead included.
C26_PipelineSafety ==
    (presult = "ok" /\ result = "ok")
    => \A i \in 1..Len(Constituents) : Constituents[i].pos \in RuleTablePrimary

\* C27: a numeral Noun token the main loop takes is chained onto an
\* existing Word only when the constituent token added to that Word last
\* is itself a numeral Noun; a Number Word that has absorbed a non-numeral
\* token is not extended by a later numeral.
C27_ChainsAfterNumeralOnly ==
    \A i \in 2..Absorbed :
        (i \in MainLoopTaken /\ Numeral(tokens[i]) /\ AttachedToken(i))
        => Numeral(tokens[i - 1])

====
